---- MODULE Spec2Model ----
(***************************************************************************)
(* SafeScan: avoid-list compiler, ingredient normalizer and term matcher.  *)
(*                                                                         *)
(* The script variants of the repository are modelled side by side:        *)
(*   "strict" = src/unnamed/part_000 (whole-word patterns, deny-list),     *)
(*   "loose"  = src/script.js        (whole word, then substring >= 5),    *)
(*   "legacy" = src/script.js, second script (name and synonyms only),     *)
(*   "item"   = src/unnamed/part_001 (continuous ZXing decoding).          *)
(* JavaScript strings are TLA+ strings; a character is a string of         *)
(* length 1.  JSON values are tagged records (see Undef, Num, Str, Arr).   *)
(***************************************************************************)
EXTENDS Integers, Sequences, FiniteSets, TLC

VARIABLES variant, data, pc, avoidList, product, ingredientsList, matches,
          engine, scanning, lastCode, lastAt, now, detects, lookups, fetched,
          status, resOK, currentStream, streams, nativeStarted, zxingErrorShown,
          caps, ts, lastTick, frames, resBarcode,
          scanTimer, timers, startDisabled, opening

\* part_002 and part_006: the interval timer of the scan, the timers created
\* so far (TRUE while not cleared), and startBtn.disabled
timerVars == <<scanTimer, timers, startDisabled>>

\* the native loop: the timestamp of the latest animation frame, lastTick,
\* and the timestamps of the frames handed to the detector
loopVars == <<ts, lastTick, frames>>

\* the fields of the scan session
scanVars ==
  <<engine, scanning, lastCode, lastAt, now, detects, lookups, fetched,
    status, resOK, currentStream, streams, nativeStarted, zxingErrorShown, caps,
    loopVars, resBarcode, timerVars, opening>>

vars == <<variant, data, pc, avoidList, product, ingredientsList, matches, scanVars>>

-----------------------------------------------------------------------------
(* Characters and the character classes the regular expressions use.       *)

LOWERS == "abcdefghijklmnopqrstuvwxyz"
UPPERS == "ABCDEFGHIJKLMNOPQRSTUVWXYZ"
DIGITS == "0123456789"

CharAt(s, i) == SubSeq(s, i, i)
CharsOf(s) == {CharAt(s, i) : i \in 1..Len(s)}

LowerSet == CharsOf(LOWERS)
UpperSet == CharsOf(UPPERS)
DigitSet == CharsOf(DIGITS)
\* [a-z0-9]
AlnumLower == LowerSet \cup DigitSet
\* \w
WordSet == LowerSet \cup UpperSet \cup DigitSet \cup {"_"}
\* \s (the white space that occurs in the modelled inputs)
SpaceSet == {" ", "\t", "\n"}
\* [\s-]
SepSet == SpaceSet \cup {"-"}
\* the characters escapeRegex / buildStrictPatternForTerm put a backslash before
RegexSpecials == {".", "*", "+", "?", "^", "$", "{", "}", "(", ")", "|", "[", "]", "\\"}

\* The accented letters of the modelled inputs and the combining marks their
\* canonical decomposition produces (U+0301 acute, U+0327 cedilla: the part of the
\* range U+0300..U+036F these inputs reach).  Each is written with an ASCII
\* character that no modelled input uses otherwise and that is, like the letter
\* or mark it stands for, neither a word character (\w), nor white space, nor
\* special in a regular expression.
LowerCCedilla == "@"
UpperCCedilla == "#"
LowerEAcute == "%"
UpperEAcute == "&"
LowerIAcute == "!"
UpperIAcute == "="
ACUTE == "'"
CEDILLA == "~"
CombiningSet == {ACUTE, CEDILLA}

-----------------------------------------------------------------------------
(* String helpers: what String.prototype.replace / trim / toLowerCase /    *)
(* normalize / split do on the inputs of the model.                        *)

\* s with every character c in DOMAIN f replaced by f[c]
\* (String.prototype.replace(/[class]/g, x) with a one-character class)
RECURSIVE StrMap(_, _)
StrMap(f, s) ==
  IF s = "" THEN ""
  ELSE LET c == CharAt(s, 1)
       IN (IF c \in DOMAIN f THEN f[c] ELSE c) \o StrMap(f, SubSeq(s, 2, Len(s)))

LowerMap ==
  [c \in UpperSet \cup {UpperCCedilla, UpperEAcute, UpperIAcute} |->
     CASE c = UpperCCedilla -> LowerCCedilla
       [] c = UpperEAcute -> LowerEAcute
       [] c = UpperIAcute -> LowerIAcute
       [] OTHER -> CharAt(LOWERS, CHOOSE i \in 1..Len(UPPERS) : CharAt(UPPERS, i) = c)]

toLowerCase(s) == StrMap(LowerMap, s)

\* String.prototype.normalize('NFD') on the precomposed letters of the inputs
NFDMap ==
  [c \in {LowerCCedilla, LowerEAcute, LowerIAcute,
          UpperCCedilla, UpperEAcute, UpperIAcute} |->
     CASE c = LowerCCedilla -> "c" \o CEDILLA
       [] c = LowerEAcute -> "e" \o ACUTE
       [] c = LowerIAcute -> "i" \o ACUTE
       [] c = UpperCCedilla -> "C" \o CEDILLA
       [] c = UpperEAcute -> "E" \o ACUTE
       [] c = UpperIAcute -> "I" \o ACUTE]

\* mutant: the combining marks left in place
keepDiacritics(t) == StrMap(NFDMap, t)

stripDiacritics(t) == StrMap([c \in CombiningSet |-> ""], StrMap(NFDMap, t))

RECURSIVE TrimLeft(_, _)
TrimLeft(s, D) ==
  IF s # "" /\ CharAt(s, 1) \in D THEN TrimLeft(SubSeq(s, 2, Len(s)), D) ELSE s

RECURSIVE TrimRight(_, _)
TrimRight(s, D) ==
  IF s # "" /\ CharAt(s, Len(s)) \in D THEN TrimRight(SubSeq(s, 1, Len(s) - 1), D) ELSE s

\* String.prototype.trim
trim(s) == TrimRight(TrimLeft(s, SpaceSet), SpaceSet)

\* s.replace(/[D]+/g, ' '): every maximal run of characters of D becomes one space
RECURSIVE CollapseRuns(_, _)
CollapseRuns(s, D) ==
  IF s = "" THEN ""
  ELSE IF CharAt(s, 1) \in D
       THEN " " \o CollapseRuns(TrimLeft(s, D), D)
       ELSE CharAt(s, 1) \o CollapseRuns(SubSeq(s, 2, Len(s)), D)

\* s.split(/[D]+/) when neg = FALSE, s.split(/[^D]+/) when neg = TRUE:
\* the pieces between maximal delimiter runs, empty edge pieces included
IsDelim(c, D, neg) == (c \in D) # neg

RECURSIVE SplitFrom(_, _, _, _, _)
SplitFrom(s, i, cur, D, neg) ==
  IF i > Len(s) THEN <<cur>>
  ELSE IF IsDelim(CharAt(s, i), D, neg)
       THEN IF i > 1 /\ IsDelim(CharAt(s, i - 1), D, neg)
            THEN SplitFrom(s, i + 1, cur, D, neg)
            ELSE <<cur>> \o SplitFrom(s, i + 1, "", D, neg)
       ELSE SplitFrom(s, i + 1, cur \o CharAt(s, i), D, neg)

Split(s, D, neg) == SplitFrom(s, 1, "", D, neg)

\* Array.prototype.filter(Boolean) on an array of strings
FilterBoolean(seq) == SelectSeq(seq, LAMBDA x : x # "")

\* String.prototype.includes
Includes(s, needle) ==
  \E i \in 1..(Len(s) - Len(needle) + 1) : SubSeq(s, i, i + Len(needle) - 1) = needle

\* mutant: every element kept
keepAll(list) == list

\* iteration order of new Set(seq): first occurrences, in order
RECURSIVE uniq(_)
uniq(list) ==
  IF list = <<>> THEN <<>>
  ELSE LET r == uniq(SubSeq(list, 1, Len(list) - 1))
           x == list[Len(list)]
       IN IF \E i \in 1..Len(r) : r[i] = x THEN r ELSE Append(r, x)

Range(seq) == {seq[i] : i \in 1..Len(seq)}

-----------------------------------------------------------------------------
(* JSON values and the JavaScript coercions applied to them.               *)

Undef == [t |-> "undefined"]
Null == [t |-> "null"]
\* the number NaN
NaN == [t |-> "NaN"]
Num(n) == [t |-> "number", n |-> n]
Str(s) == [t |-> "string", s |-> s]
Arr(a) == [t |-> "array", a |-> a]
\* a raw avoid-list record; an absent field is Undef
Rec(name, level, synonyms) ==
  [t |-> "object", name |-> name, level |-> level, synonyms |-> synonyms]

\* raw?.f
Field(raw, f) == IF raw.t = "object" /\ f \in DOMAIN raw THEN raw[f] ELSE Undef

\* v ?? d
Coalesce(v, d) == IF v.t \in {"undefined", "null"} THEN d ELSE v

\* Boolean(v)
Truthy(v) ==
  CASE v.t = "string" -> v.s # ""
    [] v.t = "number" -> v.n # 0
    [] v.t \in {"undefined", "null", "NaN"} -> FALSE
    [] OTHER -> TRUE

DigitVal(c) == CHOOSE d \in 0..9 : CharAt(DIGITS, d + 1) = c

RECURSIVE ParseDigits(_)
ParseDigits(s) ==
  IF s = "" THEN 0
  ELSE 10 * ParseDigits(SubSeq(s, 1, Len(s) - 1)) + DigitVal(CharAt(s, Len(s)))

RECURSIVE DigitsOf(_)
DigitsOf(n) ==
  IF n < 10 THEN CharAt(DIGITS, n + 1)
  ELSE DigitsOf(n \div 10) \o CharAt(DIGITS, (n % 10) + 1)

\* Number(v), for the values a JSON level field takes in the model
\* (numbers, strings of digits, other strings, null)
ToNumber(v) ==
  CASE v.t = "number" -> v
    [] v.t = "NaN" -> NaN
    [] v.t = "null" -> Num(0)
    [] v.t = "undefined" -> NaN
    [] v.t = "string" ->
         LET w == trim(v.s)
         IN IF CharsOf(w) \subseteq DigitSet THEN Num(ParseDigits(w)) ELSE NaN

\* String(v)
ToStr(v) ==
  CASE v.t = "string" -> v.s
    [] v.t = "number" -> DigitsOf(v.n)
    [] v.t = "NaN" -> "NaN"
    [] v.t = "null" -> "null"
    [] v.t = "undefined" -> "undefined"

\* a === n for a number literal n
StrictEqNum(v, n) == v.t = "number" /\ v.n = n

\* Array.isArray(v) ? v : []
ArrayOrEmpty(v) == IF v.t = "array" THEN v.a ELSE <<>>

-----------------------------------------------------------------------------
(* Avoid-list compiler.                                                    *)

TERM_TOKEN_MIN_LEN == 5
PARTIAL_TOKEN_MIN_LEN == 5

GENERIC_SINGLE_WORDS ==
  {"oil", "salt", "pepper", "cheese", "milk", "cream", "butter", "liver", "flour",
   "gum", "starch", "sugar", "vinegar", "syrup", "yeast", "protein", "collagen",
   "broth", "powder", "bean", "beans", "pepperoni", "pasta"}

BracketToSpace == [c \in {"(", ")", "[", "]"} |-> " "]

\* mutant: parenthesised content removed before the split (the inner words lost)
tokenizeForTermsNoInner(str) ==
  IF ~(str.t = "string" /\ str.s # "") THEN <<>>
  ELSE LET t == stripDiacritics(toLowerCase(str.s))
           open == CHOOSE i \in 1..(Len(t) + 1) :
                     (i = Len(t) + 1 \/ CharAt(t, i) = "(")
                     /\ \A j \in 1..(i - 1) : CharAt(t, j) # "("
           tokens == FilterBoolean(Split(SubSeq(t, 1, open - 1), AlnumLower, TRUE))
       IN SelectSeq(tokens, LAMBDA tok : Len(tok) >= 5)

\* mutant: every word kept, whatever its length
tokenizeForTermsAnyLength(str) ==
  IF ~Truthy(str) THEN <<>>
  ELSE FilterBoolean(Split(StrMap(BracketToSpace, stripDiacritics(toLowerCase(ToStr(str)))),
                           AlnumLower, TRUE))

\* tokenizeForTerms(str): the words of at least TERM_TOKEN_MIN_LEN characters of a
\* name or synonym, parentheses and brackets replaced by spaces first.
\* (part_000 lines 98-103 is the same function with the literal 5.)
tokenizeForTerms(str) ==
  IF ~Truthy(str) THEN <<>>
  ELSE LET keep == StrMap(BracketToSpace, stripDiacritics(toLowerCase(ToStr(str))))
           tokens == FilterBoolean(Split(keep, AlnumLower, TRUE))
       IN SelectSeq(tokens, LAMBDA tok : Len(tok) >= TERM_TOKEN_MIN_LEN)

\* the concatenation of the sequences of a sequence (forEach ... add / push)
RECURSIVE Flatten(_)
Flatten(seqs) ==
  IF seqs = <<>> THEN <<>> ELSE Head(seqs) \o Flatten(Tail(seqs))

(* A compiled strict pattern is the sequence of the elements between the     *)
(* look-behind (?<!\w) and the look-ahead (?!\w), matched case-insensitively:*)
(*   [k |-> "lit",   c |-> ch]   the (escaped) character ch                  *)
(*   [k |-> "sep1",  c |-> ""]   [\s-]+                                      *)
(*   [k |-> "sep01", c |-> ""]   [\s-]?                                      *)
(* NoPattern is the null that buildStrictPatternForTerm returns.             *)
Lit(ch) == [k |-> "lit", c |-> ch]
Sep1 == [k |-> "sep1", c |-> ""]
Sep01 == [k |-> "sep01", c |-> ""]
NoPattern == <<>>

\* mutant: no space/hyphen flexibility, every character stays a literal
EscapeNoFlex(t) == [i \in 1..Len(t) |-> Lit(CharAt(t, i))]

\* escape, then escaped.replace(/\s+/g, '[\\s-]+')
RECURSIVE EscapeAndFlex(_)
EscapeAndFlex(t) ==
  IF t = "" THEN <<>>
  ELSE IF CharAt(t, 1) \in SpaceSet
       THEN <<Sep1>> \o EscapeAndFlex(TrimLeft(t, SpaceSet))
       ELSE <<Lit(CharAt(t, 1))>> \o EscapeAndFlex(SubSeq(t, 2, Len(t)))

\* first and last character of the regex source text of an element
FirstSrc(e) ==
  CASE e.k = "lit" -> IF e.c \in RegexSpecials THEN "\\" ELSE e.c
    [] OTHER -> "["
LastSrc(e) ==
  CASE e.k = "lit" -> e.c
    [] e.k = "sep1" -> "+"
    [] OTHER -> "?"

IsLitIn(pat, p, S) == p <= Len(pat) /\ pat[p].k = "lit" /\ pat[p].c \in S

\* \b in the regex source before element p / after element p - 1
SrcBoundaryBefore(pat, p) == p = 1 \/ LastSrc(pat[p - 1]) \notin WordSet
SrcBoundaryAfter(pat, p) == p > Len(pat) \/ FirstSrc(pat[p]) \notin WordSet

\* number of elements /\be\s*[- ]?\s*(\d{3,4})\b/gi matches at element p of the
\* escaped source (0: no match).  After the space flex the source holds no white
\* space any more, so only a literal hyphen can stand between e and the digits.
ENumberLen(pat, p) ==
  IF ~(IsLitIn(pat, p, {"e", "E"}) /\ SrcBoundaryBefore(pat, p)) THEN 0
  ELSE LET h == IF IsLitIn(pat, p + 1, {"-", " "}) THEN 1 ELSE 0
           q == p + 1 + h
           d(n) == \A j \in 0..(n - 1) : IsLitIn(pat, q + j, DigitSet)
       IN IF d(4) /\ SrcBoundaryAfter(pat, q + 4) THEN 1 + h + 4
          ELSE IF d(3) /\ SrcBoundaryAfter(pat, q + 3) THEN 1 + h + 3
          ELSE 0

\* escaped.replace(/\be\s*[- ]?\s*(\d{3,4})\b/gi, '[eE][\\s-]?$1')
RECURSIVE ENumberFlex(_, _)
ENumberFlex(pat, p) ==
  IF p > Len(pat) THEN <<>>
  ELSE LET n == ENumberLen(pat, p)
       IN IF n = 0 THEN <<pat[p]>> \o ENumberFlex(pat, p + 1)
          ELSE LET nd == IF IsLitIn(pat, p + 1, DigitSet) THEN n - 1 ELSE n - 2
               IN <<Lit("e"), Sep01>> \o SubSeq(pat, p + n - nd, p + n - 1)
                    \o ENumberFlex(pat, p + n)

buildStrictPatternForTerm(term) ==
  LET t == stripDiacritics(trim(toLowerCase(term)))
  IN IF t = "" THEN NoPattern ELSE ENumberFlex(EscapeAndFlex(t), 1)

-----------------------------------------------------------------------------
(* RegExp matching of a compiled strict pattern.                           *)

CharEqI(a, b) == toLowerCase(a) = toLowerCase(b)

\* number of consecutive characters of [\s-] in tok from position pos
RECURSIVE SepRun(_, _)
SepRun(tok, pos) ==
  IF pos <= Len(tok) /\ CharAt(tok, pos) \in SepSet THEN 1 + SepRun(tok, pos + 1) ELSE 0

\* mutant: the look-around assertions dropped (plain substring pattern)
NotWordAtDropped(tok, pos) == TRUE

\* (?!\w) at position pos
NotWordAt(tok, pos) == pos < 1 \/ pos > Len(tok) \/ CharAt(tok, pos) \notin WordSet

\* MatchFrom: elements k.. of pat matched at position pos, followed by (?!\w):
\* the position after the match the backtracking search finds first (greedy
\* quantifiers, longest run first), 0 when there is none.
RECURSIVE MatchFrom(_, _, _, _)
RECURSIVE MatchRun(_, _, _, _, _, _)
MatchRun(pat, k, tok, pos, n, lo) ==
  IF n < lo THEN 0
  ELSE LET r == MatchFrom(pat, k + 1, tok, pos + n)
       IN IF r # 0 THEN r ELSE MatchRun(pat, k, tok, pos, n - 1, lo)

MatchFrom(pat, k, tok, pos) ==
  IF k > Len(pat) THEN (IF NotWordAt(tok, pos) THEN pos ELSE 0)
  ELSE CASE pat[k].k = "lit" ->
              IF pos <= Len(tok) /\ CharEqI(CharAt(tok, pos), pat[k].c)
              THEN MatchFrom(pat, k + 1, tok, pos + 1) ELSE 0
         [] pat[k].k = "sep1" -> MatchRun(pat, k, tok, pos, SepRun(tok, pos), 1)
         [] pat[k].k = "sep01" ->
              MatchRun(pat, k, tok, pos, IF SepRun(tok, pos) > 0 THEN 1 ELSE 0, 0)

\* positions where (?<!\w)pattern(?!\w) matches
MatchStarts(rx, ing) ==
  {i \in 1..Len(ing) : NotWordAt(ing, i - 1) /\ MatchFrom(rx, 1, ing, i) # 0}

\* rx.test(ing).  The patterns are built with the flag 'i' alone (no 'g', no 'y'),
\* so test() and match() search from the start of ing and neither read nor write
\* the lastIndex of the RegExp object.
RegexTest(rx, ing) == MatchStarts(rx, ing) # {}

\* ing.match(rx)[0]: the leftmost match
RegexMatch0(rx, ing) ==
  LET i == CHOOSE i \in MatchStarts(rx, ing) : \A j \in MatchStarts(rx, ing) : i <= j
  IN SubSeq(ing, i, MatchFrom(rx, 1, ing, i) - 1)

-----------------------------------------------------------------------------
(* normalizeAvoid and loadAvoidList, strict variant (part_000).            *)

\* [nameRaw, ...synonyms] as JSON values
NameAndSynonyms(name, synonyms) == <<name>> \o synonyms

\* tokens of every name / synonym, in insertion order of the token Set
ExpandedTokens(items) ==
  uniq(Flatten([i \in 1..Len(items) |-> tokenizeForTerms(items[i])]))

normalizeAvoidStrict(raw) ==
  LET nameRaw == trim(ToStr(Coalesce(Field(raw, "name"), Str(""))))
      level == ToNumber(Coalesce(Field(raw, "level"), Num(0)))
      synonyms == ArrayOrEmpty(Field(raw, "synonyms"))
      items == NameAndSynonyms(Str(nameRaw), synonyms)
      kept == SelectSeq(items, Truthy)
      fullPhrases == [i \in 1..Len(kept) |->
                        stripDiacritics(trim(toLowerCase(ToStr(kept[i]))))]
      tokenSet == ExpandedTokens(items)
      terms == uniq(fullPhrases
                    \o SelectSeq(tokenSet, LAMBDA tok : tok \notin GENERIC_SINGLE_WORDS))
      built == [i \in 1..Len(terms) |-> buildStrictPatternForTerm(terms[i])]
  IN [name |-> nameRaw,
      level |-> level,
      terms |-> terms,
      patterns |-> SelectSeq(built, LAMBDA pat : pat # NoPattern)]

\* the fetched avoid-list document: a JSON value, or FetchError when fetch() or
\* res.json() throws
FetchError == [t |-> "error"]

\* mutant: entries that compile to no term dropped from the list
loadAvoidListStrictDropEmpty(doc) ==
  IF doc.t # "array" THEN <<>>
  ELSE LET keep == SelectSeq(doc.a, LAMBDA e :
                      e.t = "object" /\ (StrictEqNum(e.level, 2) \/ StrictEqNum(e.level, 3)))
           all == [i \in 1..Len(keep) |-> normalizeAvoidStrict(keep[i])]
       IN SelectSeq(all, LAMBDA e : e.terms # <<>>)

\* arr.filter(e => e && (e.level === 2 || e.level === 3)).map(normalizeAvoid)
loadAvoidListStrict(doc) ==
  IF doc = FetchError THEN <<>>
  ELSE LET arr == ArrayOrEmpty(doc)
           keep == SelectSeq(arr, LAMBDA e :
                      Truthy(e) /\ (StrictEqNum(Field(e, "level"), 2)
                                    \/ StrictEqNum(Field(e, "level"), 3)))
       IN [i \in 1..Len(keep) |-> normalizeAvoidStrict(keep[i])]

(* normalizeAvoid and loadAvoidList, loose variant (script.js).            *)

normalizeAvoidLoose(raw) ==
  LET name == toLowerCase(trim(ToStr(Coalesce(Field(raw, "name"), Str("")))))
      level == ToNumber(Coalesce(Field(raw, "level"), Num(0)))
      synonyms == ArrayOrEmpty(Field(raw, "synonyms"))
      kept == SelectSeq(NameAndSynonyms(Str(name), synonyms), Truthy)
      baseTerms == [i \in 1..Len(kept) |-> stripDiacritics(toLowerCase(ToStr(kept[i])))]
      expandedTokens == ExpandedTokens(NameAndSynonyms(Field(raw, "name"), synonyms))
  IN [name |-> name,
      level |-> level,
      terms |-> FilterBoolean(uniq(baseTerms \o expandedTokens))]

\* mutant: a built-in list stands in when the fetch fails
loadAvoidListLooseBuiltIn(doc) ==
  IF doc = FetchError
  THEN <<normalizeAvoidLoose(Rec(Str("cheese"), Num(3), Arr(<<>>)))>>
  ELSE LET arr == ArrayOrEmpty(doc)
       IN [i \in 1..Len(arr) |-> normalizeAvoidLoose(arr[i])]

\* Array.isArray(data) ? data.map(normalizeAvoid) : []
loadAvoidListLoose(doc) ==
  IF doc = FetchError THEN <<>>
  ELSE LET arr == ArrayOrEmpty(doc)
       IN [i \in 1..Len(arr) |-> normalizeAvoidLoose(arr[i])]

(* normalizeAvoid and loadAvoidList of the second script of script.js, and  *)
(* normalizeAvoidItem and loadAvoidList of part_001: name and synonyms only. *)

\* the TypeError a property read of null or a call of a missing method throws
Throw == [t |-> "TypeError"]

\* v || d
OrElse(v, d) == IF Truthy(v) THEN v ELSE d

\* [name, ...synonyms].filter(Boolean).map(t => t.toLowerCase()): a truthy element
\* that is not a string has no toLowerCase method
LowerAll(items) ==
  LET kept == SelectSeq(items, Truthy)
  IN IF \E i \in 1..Len(kept) : kept[i].t # "string" THEN Throw
     ELSE [t |-> "array", a |-> [i \in 1..Len(kept) |-> toLowerCase(kept[i].s)]]

\* script.js (second script) normalizeAvoid
normalizeAvoidLegacy(raw) ==
  LET name == toLowerCase(trim(ToStr(
                Coalesce(Field(raw, "name"), Coalesce(Field(raw, "term"), Str(""))))))
      level == ToNumber(Coalesce(Field(raw, "level"),
                                 Coalesce(Field(raw, "severity"), Num(0))))
      synonyms == ArrayOrEmpty(Field(raw, "synonyms"))
      terms == LowerAll(NameAndSynonyms(Str(name), synonyms))
  IN IF terms = Throw THEN Throw
     ELSE [name |-> name, level |-> level, terms |-> terms.a]

\* part_001 normalizeAvoidItem: raw.name without optional chaining
normalizeAvoidItem(raw) ==
  IF raw.t \in {"null", "undefined"} THEN Throw
  ELSE LET name == toLowerCase(trim(ToStr(
                     OrElse(Field(raw, "name"), OrElse(Field(raw, "term"), Str("")))))) 
           level == ToNumber(Coalesce(Field(raw, "level"),
                                      Coalesce(Field(raw, "severity"), Num(0))))
           synonyms == ArrayOrEmpty(Field(raw, "synonyms"))
           allTerms == LowerAll(NameAndSynonyms(Str(name), synonyms))
       IN IF allTerms = Throw THEN Throw
          ELSE [name |-> name, level |-> level, terms |-> allTerms.a]

\* try { avoidList = Array.isArray(data) ? data.map(normalizeAvoid) : [] }
\* catch { avoidList = [] }
loadAvoidListLegacy(doc) ==
  IF doc = FetchError THEN <<>>
  ELSE LET arr == ArrayOrEmpty(doc)
           out == [i \in 1..Len(arr) |-> normalizeAvoidLegacy(arr[i])]
       IN IF \E i \in 1..Len(out) : out[i] = Throw THEN <<>> ELSE out

loadAvoidListItem(doc) ==
  IF doc = FetchError THEN <<>>
  ELSE LET arr == ArrayOrEmpty(doc)
           out == [i \in 1..Len(arr) |-> normalizeAvoidItem(arr[i])]
       IN IF \E i \in 1..Len(out) : out[i] = Throw THEN <<>> ELSE out

-----------------------------------------------------------------------------
(* Ingredient normalizer.                                                  *)

ParenToSpace == [c \in {"(", ")"} |-> " "]
ParenToComma == [c \in {"(", ")"} |-> ","]

RECURSIVE TrimLeftNot(_, _)
TrimLeftNot(s, K) ==
  IF s # "" /\ CharAt(s, 1) \notin K THEN TrimLeftNot(SubSeq(s, 2, Len(s)), K) ELSE s

RECURSIVE TrimRightNot(_, _)
TrimRightNot(s, K) ==
  IF s # "" /\ CharAt(s, Len(s)) \notin K
  THEN TrimRightNot(SubSeq(s, 1, Len(s) - 1), K) ELSE s

\* mutant: the edges left as they are
KeepEdges(t) == t

\* t.replace(/^[^a-z0-9]+|[^a-z0-9]+$/g, '')
StripEdges(t) == TrimRightNot(TrimLeftNot(t, AlnumLower), AlnumLower)

\* index of the first ")" of s, 0 when there is none
RECURSIVE FirstClose(_, _)
FirstClose(s, i) ==
  IF i > Len(s) THEN 0
  ELSE IF CharAt(s, i) = ")" THEN i ELSE FirstClose(s, i + 1)

\* t.replace(/\([^)]*\)/g, ''): from each "(" to the next ")"
RECURSIVE RemoveParenthesised(_)
RemoveParenthesised(t) ==
  IF t = "" THEN ""
  ELSE IF CharAt(t, 1) = "(" /\ FirstClose(t, 2) # 0
       THEN RemoveParenthesised(SubSeq(t, FirstClose(t, 2) + 1, Len(t)))
       ELSE CharAt(t, 1) \o RemoveParenthesised(SubSeq(t, 2, Len(t)))

\* mutant: the parentheses replaced after the runs were collapsed
normalizeIngredientStrictParensLast(s) ==
  IF s = "" THEN ""
  ELSE LET t1 == stripDiacritics(trim(toLowerCase(s)))
           t2 == trim(CollapseRuns(t1, SpaceSet \cup {"-", "_"}))
           t3 == StrMap(ParenToSpace, t2)
       IN StripEdges(t3)

\* part_000: parentheses become spaces, the inner words are kept
normalizeIngredientStrict(s) ==
  IF s = "" THEN ""
  ELSE LET t1 == stripDiacritics(trim(toLowerCase(s)))
           t2 == StrMap(ParenToSpace, t1)
           t3 == trim(CollapseRuns(t2, SpaceSet \cup {"-", "_"}))
       IN StripEdges(t3)

\* script.js: parenthesised content is deleted
normalizeIngredientLoose(s) ==
  IF s = "" THEN ""
  ELSE LET t1 == stripDiacritics(trim(toLowerCase(s)))
           t2 == RemoveParenthesised(t1)
           t3 == trim(CollapseRuns(t2, SpaceSet \cup {"-", "_"}))
       IN StripEdges(t3)

ListDelims == {",", "[", "]", ";"}

\* text: the product's ingredients_text; arr: the text of each structured
\* fragment of the product's ingredients array ("" for x?.text ?? '')
\* mutant: the free text used when the fragments yield no token
buildIngredientsListStrictFallback(text, arr) ==
  LET fromArr == uniq(FilterBoolean([i \in 1..Len(arr) |-> normalizeIngredientStrict(arr[i])]))
      parts == Split(StrMap(ParenToComma, text), ListDelims, FALSE)
      fromText == uniq(FilterBoolean([i \in 1..Len(parts) |-> normalizeIngredientStrict(parts[i])]))
  IN IF fromArr # <<>> THEN fromArr ELSE IF text = "" THEN <<>> ELSE fromText

buildIngredientsListStrict(text, arr) ==
  IF Len(arr) > 0
  THEN uniq(FilterBoolean([i \in 1..Len(arr) |-> normalizeIngredientStrict(arr[i])]))
  ELSE IF text = "" THEN <<>>
  ELSE LET pre == StrMap(ParenToComma, text)
           parts == Split(pre, ListDelims, FALSE)
       IN uniq(FilterBoolean([i \in 1..Len(parts) |-> normalizeIngredientStrict(parts[i])]))

buildIngredientsListLoose(text, arr) ==
  IF Len(arr) > 0
  THEN uniq(FilterBoolean([i \in 1..Len(arr) |-> normalizeIngredientLoose(arr[i])]))
  ELSE IF text = "" THEN <<>>
  ELSE LET parts == Split(text, ListDelims, FALSE)
       IN uniq(FilterBoolean([i \in 1..Len(parts) |-> normalizeIngredientLoose(parts[i])]))

\* part_001 normalizeIngredient: no accent folding, "/" is a separator too
normalizeIngredientItem(s) ==
  IF s = "" THEN ""
  ELSE LET t1 == trim(toLowerCase(s))
           t2 == RemoveParenthesised(t1)
           t3 == trim(CollapseRuns(t2, SpaceSet \cup {"-", "_", "/"}))
       IN StripEdges(t3)

\* part_001 buildIngredientsList; arr is ingArray, the trimmed non-empty
\* fragment texts fetchAndDisplayProduct hands over
buildIngredientsListItem(text, arr) ==
  LET ingArray == FilterBoolean([i \in 1..Len(arr) |-> trim(arr[i])])
  IN IF Len(ingArray) > 0
     THEN uniq(FilterBoolean([i \in 1..Len(ingArray) |-> normalizeIngredientItem(ingArray[i])]))
     ELSE IF text = "" THEN <<>>
     ELSE LET parts == Split(text, {",", ";"}, FALSE)
          IN uniq(FilterBoolean([i \in 1..Len(parts) |-> normalizeIngredientItem(parts[i])]))

-----------------------------------------------------------------------------
(* Term matcher.  A hit is the reported span; NoHit is the null result     *)
(* (null and "" are equally falsy in `if (hit)`, and no span is empty).    *)

NoHit == ""

\* first pattern of the entry, in order, that matches ing: its matched span
RECURSIVE FirstPatternHit(_, _, _)
FirstPatternHit(ing, patterns, j) ==
  IF j > Len(patterns) THEN NoHit
  ELSE IF RegexTest(patterns[j], ing) THEN RegexMatch0(patterns[j], ing)
  ELSE FirstPatternHit(ing, patterns, j + 1)

RECURSIVE findStrictHitFrom(_, _, _)
findStrictHitFrom(ingredients, entry, i) ==
  IF i > Len(ingredients) THEN NoHit
  ELSE LET h == FirstPatternHit(ingredients[i], entry.patterns, 1)
       IN IF h # NoHit THEN h ELSE findStrictHitFrom(ingredients, entry, i + 1)

RECURSIVE FirstTokenHit(_, _, _)
FirstTokenHit(ingredients, rx, i) ==
  IF i > Len(ingredients) THEN NoHit
  ELSE IF RegexTest(rx, ingredients[i]) THEN RegexMatch0(rx, ingredients[i])
  ELSE FirstTokenHit(ingredients, rx, i + 1)

RECURSIVE TermsOuterFrom(_, _, _)
TermsOuterFrom(ingredients, entry, j) ==
  IF j > Len(entry.patterns) THEN NoHit
  ELSE LET h == FirstTokenHit(ingredients, entry.patterns[j], 1)
       IN IF h # NoHit THEN h ELSE TermsOuterFrom(ingredients, entry, j + 1)

\* mutant: the two loops exchanged (patterns outside, ingredients inside)
findStrictHitTermsOuter(ingredients, entry) == TermsOuterFrom(ingredients, entry, 1)

\* for (ing of ingredients) for (rx of entry.patterns) if (rx.test(ing)) return span
findStrictHit(ingredients, entry) == findStrictHitFrom(ingredients, entry, 1)

IsWordAt(s, p) == p >= 1 /\ p <= Len(s) /\ CharAt(s, p) \in WordSet

\* \b between positions p - 1 and p
WordBoundary(s, p) == IsWordAt(s, p - 1) # IsWordAt(s, p)

\* new RegExp(`\\b${escapeRegex(needle)}\\b`).test(ing)
BoundaryTest(needle, ing) ==
  \E i \in 1..(Len(ing) - Len(needle) + 1) :
     /\ SubSeq(ing, i, i + Len(needle) - 1) = needle
     /\ WordBoundary(ing, i)
     /\ WordBoundary(ing, i + Len(needle))

\* mutant: the substring fallback without the length floor
needleHitsNoFloor(ingredients, needle) ==
  \E i \in 1..Len(ingredients) : Includes(ingredients[i], needle)

\* one term of findTermHit: the first loop (exact or whole word in some
\* ingredient), then, for a needle of PARTIAL_TOKEN_MIN_LEN characters or more,
\* the second loop (substring of some ingredient)
needleHits(ingredients, needle) ==
  \/ \E i \in 1..Len(ingredients) :
        ingredients[i] = needle \/ BoundaryTest(needle, ingredients[i])
  \/ /\ Len(needle) >= PARTIAL_TOKEN_MIN_LEN
     /\ \E i \in 1..Len(ingredients) : Includes(ingredients[i], needle)

RECURSIVE findTermHitFrom(_, _, _)
findTermHitFrom(ingredients, terms, k) ==
  IF k > Len(terms) THEN NoHit
  ELSE LET needle == trim(toLowerCase(terms[k]))
       IN IF needle = "" THEN findTermHitFrom(ingredients, terms, k + 1)
          ELSE IF needleHits(ingredients, needle) THEN needle
          ELSE findTermHitFrom(ingredients, terms, k + 1)

\* for (t of terms): whole word in some ingredient, else substring if long enough
findTermHit(ingredients, terms) == findTermHitFrom(ingredients, terms, 1)

NoMatches == [lvl2 |-> <<>>, lvl3 |-> <<>>]

\* mutant: the buckets kept between calls (the result of the previous call)
StaleBuckets == matches

\* const lvl2 = [], lvl3 = []: the buckets are locals, created empty by each call
FreshBuckets == NoMatches

\* mutant: the entry's canonical name reported in place of the matched span
PushName(m, entry, hit) ==
  IF StrictEqNum(entry.level, 3)
  THEN [m EXCEPT !.lvl3 = Append(@, [term |-> entry.name, name |-> entry.name])]
  ELSE [m EXCEPT !.lvl2 = Append(@, [term |-> entry.name, name |-> entry.name])]

\* mutant: the result pushed once for the hit and once more
PushTwice(m, entry, hit) ==
  IF StrictEqNum(entry.level, 3)
  THEN [m EXCEPT !.lvl3 = Append(Append(@, [term |-> hit, name |-> entry.name]),
                                 [term |-> hit, name |-> entry.name])]
  ELSE [m EXCEPT !.lvl2 = Append(Append(@, [term |-> hit, name |-> entry.name]),
                                 [term |-> hit, name |-> entry.name])]

\* (entry.level === 3 ? lvl3 : lvl2).push({ term: hit, name: entry.name })
Push(m, entry, hit) ==
  IF StrictEqNum(entry.level, 3)
  THEN [m EXCEPT !.lvl3 = Append(@, [term |-> hit, name |-> entry.name])]
  ELSE [m EXCEPT !.lvl2 = Append(@, [term |-> hit, name |-> entry.name])]

RECURSIVE matchIngredientsStrictFrom(_, _, _, _)
matchIngredientsStrictFrom(ingredients, avoid, i, m) ==
  IF i > Len(avoid) THEN m
  ELSE LET entry == avoid[i]
       IN IF Len(entry.patterns) = 0 \/ ~Truthy(entry.level)
          THEN matchIngredientsStrictFrom(ingredients, avoid, i + 1, m)
          ELSE LET hit == findStrictHit(ingredients, entry)
               IN matchIngredientsStrictFrom(ingredients, avoid, i + 1,
                     IF hit # NoHit THEN Push(m, entry, hit) ELSE m)

matchIngredientsStrict(ingredients, avoid) ==
  matchIngredientsStrictFrom(ingredients, avoid, 1, FreshBuckets)

RECURSIVE matchIngredientsLooseFrom(_, _, _, _)
matchIngredientsLooseFrom(ingredients, avoid, i, m) ==
  IF i > Len(avoid) THEN m
  ELSE LET entry == avoid[i]
       IN IF ~Truthy(entry.level)
          THEN matchIngredientsLooseFrom(ingredients, avoid, i + 1, m)
          ELSE LET hit == findTermHit(ingredients, entry.terms)
               IN matchIngredientsLooseFrom(ingredients, avoid, i + 1,
                     IF hit # NoHit THEN Push(m, entry, hit) ELSE m)

matchIngredientsLoose(ingredients, avoid) ==
  matchIngredientsLooseFrom(ingredients, avoid, 1, FreshBuckets)

\* part_001 findTermHit: exact or whole word, terms outer, ingredients inner
RECURSIVE findTermHitItemFrom(_, _, _)
findTermHitItemFrom(ingredients, terms, k) ==
  IF k > Len(terms) THEN NoHit
  ELSE LET needle == toLowerCase(terms[k])
       IN IF \E i \in 1..Len(ingredients) :
               ingredients[i] = needle \/ BoundaryTest(needle, ingredients[i])
          THEN needle
          ELSE findTermHitItemFrom(ingredients, terms, k + 1)

findTermHitItem(ingredients, terms) == findTermHitItemFrom(ingredients, terms, 1)

\* part_001 matchIngredients
RECURSIVE matchIngredientsItemFrom(_, _, _, _)
matchIngredientsItemFrom(ingredients, avoid, i, m) ==
  IF i > Len(avoid) THEN m
  ELSE LET entry == avoid[i]
       IN IF ~Truthy(entry.level)
          THEN matchIngredientsItemFrom(ingredients, avoid, i + 1, m)
          ELSE LET hit == findTermHitItem(ingredients, entry.terms)
               IN matchIngredientsItemFrom(ingredients, avoid, i + 1,
                     IF hit # NoHit THEN Push(m, entry, hit) ELSE m)

matchIngredientsItem(ingredients, avoid) ==
  matchIngredientsItemFrom(ingredients, avoid, 1, FreshBuckets)

-----------------------------------------------------------------------------
(* Inputs of the model.                                                    *)

\* at most MaxRecords records in a fetched avoid list
MaxRecords == 2
\* at most MaxTokens tokens in an ingredient list handed to the matcher directly
MaxTokens == 2

RawRecords ==
  { Rec(Str("MSG"), Num(3), Arr(<<Str("E621"), Str("e 621")>>)),
    Rec(Str("cheese"), Num(2), Arr(<<Str("Wheat (semolina)"), Str("curd (cream)")>>)),
    Rec(Str("cellulose gum"), Num(2), Arr(<<Str("carboxymethyl cellulose")>>)),
    Rec(Str("palm oil"), Num(1), Arr(<<Str("oil")>>)),
    Rec(Undef, Num(2), Undef),
    Rec(Str("almond"), Str("3"), Str("almonds")),
    Rec(Str(" A" \o LowerCCedilla \o "a" \o LowerIAcute \o " "), Num(3), Arr(<<Str("oil"), Null, Str("  ")>>)),
    Rec(Str("sea salt"), Undef, Arr(<<Str("salt")>>)),
    Rec(Str("sugar"), Str("high"), Arr(<<>>)),
    Null }

\* the sequences of at most n elements of S
RECURSIVE SeqsUpTo(_, _)
SeqsUpTo(S, n) ==
  IF n = 0 THEN {<<>>}
  ELSE LET shorter == SeqsUpTo(S, n - 1)
       IN shorter \cup {Append(q, x) : q \in shorter, x \in S}

\* what fetch('triggers_level2_3_array.json') can deliver
AvoidDocs ==
  {Arr(list) : list \in SeqsUpTo(RawRecords, MaxRecords)}
    \cup {FetchError, [t |-> "object"]}

\* avoid lists that also hold a record with a synonym that is not a string
LoadDocs ==
  {Arr(list) : list \in SeqsUpTo(
      RawRecords \cup {Rec(Str("glutamate"), Num(3), Arr(<<Str("MSG"), Num(621)>>))},
      MaxRecords)}
    \cup {FetchError, [t |-> "object"]}

\* the strings of at most n characters of A
RECURSIVE StringsUpTo(_, _)
StringsUpTo(A, n) ==
  IF n = 0 THEN {""}
  ELSE LET shorter == StringsUpTo(A, n - 1)
       IN shorter \cup {str \o c : str \in shorter, c \in A}

\* at most MaxChars characters in a string handed to normalizeIngredient directly
MaxChars == 5

\* a letter, an accented capital, and the characters normalizeIngredient treats
\* specially: white space, hyphen, underscore, parentheses, punctuation
FragmentChars == {"a", UpperEAcute, " ", "-", "_", "(", ")", ","}

Fragments == StringsUpTo(FragmentChars, MaxChars)

\* one-record avoid lists, for the direct calls of the matcher
UnitDocs == {Arr(<<r>>) : r \in RawRecords}

Prod(text, arr) == [ingredients_text |-> text, ingredients |-> arr]
NoProduct == Prod("", <<>>)

\* products the lookup can return: ingredients_text and the text of each
\* fragment of the structured ingredients array
Products ==
  { Prod("Pasta (semolina, water)", <<>>),
    Prod("", <<"Pasta (semolina, water)">>),
    Prod("pasta (semolina)", <<>>),
    Prod("Monosodium glutamate (E-621), salt", <<>>),
    Prod("water; E621, sugar", <<>>),
    Prod("boiled potatoes, saltpeter", <<>>),
    Prod("Cheese, cream", <<>>),
    Prod("carboxymethyl-cellulose", <<>>),
    Prod("carboxymethylcellulose", <<>>),
    Prod("carboxymethyl cellulose, Cellulose gum", <<>>),
    Prod("palm oil, almonds", <<>>),
    Prod("", <<>>),
    Prod("   ", <<>>),
    Prod("A" \o LowerCCedilla \o "a" \o LowerIAcute \o " Berry, ACAI berry [sunflower oil]", <<>>),
    Prod("contains cheese", <<"Olive Oil", "", "olive-oil", "E 621">>),
    Prod("almond, rice", <<"rice">>),
    Prod("Coffee (cream)", <<>>) }

\* the characters of a free text handed to buildIngredientsList directly: two
\* letters (one an accented capital), white space, list delimiters, parentheses
BuildChars == {"a", UpperEAcute, " ", ",", ";", "(", ")"}

\* the text of structured fragments handed to buildIngredientsList directly
BuildFragments == {"a", "A (a)", "e", UpperEAcute \o "-A", " a_a ", ""}

\* free text next to a structured array
BuildTexts == {"", "a, e", "e (a-a)"}

BuildProducts ==
  {Prod(text, <<>>) : text \in StringsUpTo(BuildChars, MaxChars)}
    \cup {Prod(text, arr) : text \in BuildTexts,
                            arr \in SeqsUpTo(BuildFragments, MaxTokens) \ {<<>>}}

\* the avoid list the built tokens are matched against
BuildAvoidDoc ==
  Arr(<<Rec(Str("E"), Num(3), Arr(<<Str("a a")>>)), Rec(Str("a"), Num(2), Arr(<<>>))>>)

\* ingredient lists for the direct calls of the matcher
ProbeTokens ==
  { "E621", "E-621", "e 621", "e62", "e6210",
    "boiled", "olive oil",
    "carboxymethyl-cellulose", "carboxymethyl  cellulose", "carboxymethylcellulose",
    "cellulose gum", "cheese" }

ProbeLists == SeqsUpTo(ProbeTokens, MaxTokens)

-----------------------------------------------------------------------------
(* The scan session.  engine is the scanner that was started ("none"       *)
(* before a start), scanning the flag of that name (zxingActive in         *)
(* part_001), lastCode and lastAt the debounce memory (lastFetchTs in      *)
(* part_001), now the value of Date.now() in milliseconds, detects the     *)
(* number of barcodeDetector.detect() promises not yet settled, lookups    *)
(* the barcodes of the fetchAndDisplayProduct calls that await a response, *)
(* fetched the request log: for each code the value of Date.now() when the *)
(* latest lookup of it was started, NotFetched when there was none.        *)
(* status is the text of the status line and resOK the content of the      *)
(* "no flagged ingredients" list; streams holds, for each MediaStream that *)
(* getUserMedia returned to openStream, whether it has a live track, and   *)
(* currentStream is the index of the current one (0 for null).  caps is    *)
(* the platform: whether BarcodeDetector and the ZXing library can be used. *)

\* the texts a decode can yield
ScanCodes == {"0001", "0002"}

NotFetched == 0 - 1

\* lastCode = null: no decoded text equals it, and an accepted text is not ''
NoCode == ""

\* the content of the page before any script has written to it
Blank == ""

\* the module-level declarations of the session state
SessionIdle ==
  /\ engine = "none"
  /\ scanning = FALSE
  /\ lastCode = NoCode
  /\ lastAt = 0
  /\ now = 0
  /\ detects = 0
  /\ lookups = <<>>
  /\ fetched = [c \in ScanCodes |-> NotFetched]
  /\ status = Blank
  /\ resOK = Blank
  /\ resBarcode = Blank
  /\ currentStream = 0
  /\ streams = <<>>
  /\ nativeStarted = FALSE
  /\ zxingErrorShown = FALSE
  /\ ts = 0
  /\ lastTick = 0
  /\ frames = <<>>
  /\ scanTimer = 0
  /\ timers = <<>>
  /\ startDisabled = FALSE
  /\ opening = 0

\* a browser with BarcodeDetector and the ZXing library
ScanIdle ==
  /\ SessionIdle
  /\ caps = [native |-> "ok", zxing |-> "ok"]

-----------------------------------------------------------------------------
(* The program: boot loads the avoid list; the scan session then accepts a  *)
(* decoded barcode, looks it up, matches its ingredients and renders them.  *)
(* AUTO_STOP_AFTER_DECODE stops the session at the first accepted decode,   *)
(* and a lookup reads nothing but avoidList, so one lookup per behaviour    *)
(* shows every result a lookup can render.                                  *)

Init ==
  /\ variant \in {"strict", "loose"}
  /\ data \in AvoidDocs
  /\ pc = "boot"
  /\ avoidList = <<>>
  /\ product = NoProduct
  /\ ingredientsList = <<>>
  /\ matches = NoMatches
  /\ ScanIdle

\* part_000 loadAvoidList
LoadAvoidListStrict ==
  /\ pc = "boot"
  /\ variant = "strict"
  /\ avoidList' = loadAvoidListStrict(data)
  /\ pc' = "ready"
  /\ UNCHANGED <<variant, data, product, ingredientsList, matches, scanVars>>

\* script.js loadAvoidList
LoadAvoidListLoose ==
  /\ pc = "boot"
  /\ variant = "loose"
  /\ avoidList' = loadAvoidListLoose(data)
  /\ pc' = "ready"
  /\ UNCHANGED <<variant, data, product, ingredientsList, matches, scanVars>>

\* part_000 fetchAndDisplayProduct, the lookup answering with product p
FetchAndDisplayProductStrict ==
  /\ pc = "ready"
  /\ variant = "strict"
  /\ \E p \in Products :
       LET list == buildIngredientsListStrict(trim(p.ingredients_text), p.ingredients)
       IN /\ product' = p
          /\ ingredientsList' = list
          /\ matches' = matchIngredientsStrict(list, avoidList)
  /\ pc' = "rendered"
  /\ UNCHANGED <<variant, data, avoidList, scanVars>>

\* script.js fetchAndDisplayProduct
FetchAndDisplayProductLoose ==
  /\ pc = "ready"
  /\ variant = "loose"
  /\ \E p \in Products :
       LET list == buildIngredientsListLoose(trim(p.ingredients_text), p.ingredients)
       IN /\ product' = p
          /\ ingredientsList' = list
          /\ matches' = matchIngredientsLoose(list, avoidList)
  /\ pc' = "rendered"
  /\ UNCHANGED <<variant, data, avoidList, scanVars>>

Next ==
  \/ LoadAvoidListStrict
  \/ LoadAvoidListLoose
  \/ FetchAndDisplayProductStrict
  \/ FetchAndDisplayProductLoose

Spec == Init /\ [][Next]_vars

(* The matcher called directly, as a pure function of an ingredient list   *)
(* and a one-record avoid list.                                            *)

InitUnit ==
  /\ variant \in {"strict", "loose"}
  /\ data \in UnitDocs
  /\ pc = "boot"
  /\ avoidList = <<>>
  /\ product = NoProduct
  /\ ingredientsList = <<>>
  /\ matches = NoMatches
  /\ ScanIdle

MatchIngredientsStrictCall ==
  /\ pc = "ready"
  /\ variant = "strict"
  /\ \E list \in ProbeLists :
       /\ ingredientsList' = list
       /\ matches' = matchIngredientsStrict(list, avoidList)
  /\ pc' = "matched"
  /\ UNCHANGED <<variant, data, avoidList, product, scanVars>>

MatchIngredientsLooseCall ==
  /\ pc = "ready"
  /\ variant = "loose"
  /\ \E list \in ProbeLists :
       /\ ingredientsList' = list
       /\ matches' = matchIngredientsLoose(list, avoidList)
  /\ pc' = "matched"
  /\ UNCHANGED <<variant, data, avoidList, product, scanVars>>

NextUnit ==
  \/ LoadAvoidListStrict
  \/ LoadAvoidListLoose
  \/ MatchIngredientsStrictCall
  \/ MatchIngredientsLooseCall

SpecUnit == InitUnit /\ [][NextUnit]_vars

(* The same product looked up a second time: the matcher runs again on the  *)
(* same avoid list and the same ingredient data.                            *)

\* part_000 fetchAndDisplayProduct, answering with the product of the last lookup
FetchAndDisplayProductAgainStrict ==
  /\ pc = "rendered"
  /\ variant = "strict"
  /\ LET list == buildIngredientsListStrict(trim(product.ingredients_text),
                                            product.ingredients)
     IN /\ ingredientsList' = list
        /\ matches' = matchIngredientsStrict(list, avoidList)
  /\ pc' = "rerendered"
  /\ UNCHANGED <<variant, data, avoidList, product, scanVars>>

\* script.js fetchAndDisplayProduct, answering with the product of the last lookup
FetchAndDisplayProductAgainLoose ==
  /\ pc = "rendered"
  /\ variant = "loose"
  /\ LET list == buildIngredientsListLoose(trim(product.ingredients_text),
                                           product.ingredients)
     IN /\ ingredientsList' = list
        /\ matches' = matchIngredientsLoose(list, avoidList)
  /\ pc' = "rerendered"
  /\ UNCHANGED <<variant, data, avoidList, product, scanVars>>

NextTwice ==
  \/ LoadAvoidListStrict
  \/ LoadAvoidListLoose
  \/ FetchAndDisplayProductStrict
  \/ FetchAndDisplayProductLoose
  \/ FetchAndDisplayProductAgainStrict
  \/ FetchAndDisplayProductAgainLoose

SpecTwice == Init /\ [][NextTwice]_vars

(* normalizeIngredient called directly on a fragment, and again on its own *)
(* result.                                                                  *)

InitNorm ==
  /\ variant \in {"strict", "loose"}
  /\ data \in {Str(f) : f \in Fragments}
  /\ pc = "boot"
  /\ avoidList = <<>>
  /\ product = NoProduct
  /\ ingredientsList = <<>>
  /\ matches = NoMatches
  /\ ScanIdle

NormalizeIngredientStrictCall ==
  /\ pc \in {"boot", "normalized"}
  /\ variant = "strict"
  /\ ingredientsList' =
       IF pc = "boot" THEN <<normalizeIngredientStrict(data.s)>>
       ELSE Append(ingredientsList, normalizeIngredientStrict(ingredientsList[1]))
  /\ pc' = IF pc = "boot" THEN "normalized" ELSE "renormalized"
  /\ UNCHANGED <<variant, data, avoidList, product, matches, scanVars>>

NormalizeIngredientLooseCall ==
  /\ pc \in {"boot", "normalized"}
  /\ variant = "loose"
  /\ ingredientsList' =
       IF pc = "boot" THEN <<normalizeIngredientLoose(data.s)>>
       ELSE Append(ingredientsList, normalizeIngredientLoose(ingredientsList[1]))
  /\ pc' = IF pc = "boot" THEN "normalized" ELSE "renormalized"
  /\ UNCHANGED <<variant, data, avoidList, product, matches, scanVars>>

NextNorm ==
  \/ NormalizeIngredientStrictCall
  \/ NormalizeIngredientLooseCall

SpecNorm == InitNorm /\ [][NextNorm]_vars

(* buildIngredientsList called directly on a free text and a fragment      *)
(* array, and its tokens matched.                                           *)

InitBuild ==
  /\ variant \in {"strict", "loose"}
  /\ data = BuildAvoidDoc
  /\ pc = "ready"
  /\ avoidList = (IF variant = "strict" THEN loadAvoidListStrict(data)
                  ELSE loadAvoidListLoose(data))
  /\ product \in BuildProducts
  /\ ingredientsList = <<>>
  /\ matches = NoMatches
  /\ ScanIdle

BuildIngredientsListStrictCall ==
  /\ pc = "ready"
  /\ variant = "strict"
  /\ LET list == buildIngredientsListStrict(product.ingredients_text, product.ingredients)
     IN /\ ingredientsList' = list
        /\ matches' = matchIngredientsStrict(list, avoidList)
  /\ pc' = "built"
  /\ UNCHANGED <<variant, data, avoidList, product, scanVars>>

BuildIngredientsListLooseCall ==
  /\ pc = "ready"
  /\ variant = "loose"
  /\ LET list == buildIngredientsListLoose(product.ingredients_text, product.ingredients)
     IN /\ ingredientsList' = list
        /\ matches' = matchIngredientsLoose(list, avoidList)
  /\ pc' = "built"
  /\ UNCHANGED <<variant, data, avoidList, product, scanVars>>

NextBuild ==
  \/ BuildIngredientsListStrictCall
  \/ BuildIngredientsListLooseCall

SpecBuild == InitBuild /\ [][NextBuild]_vars

(* Loading alone, in each of the four loaders of the repository.           *)

InitLoad ==
  /\ variant \in {"strict", "loose", "legacy", "item"}
  /\ data \in LoadDocs
  /\ pc = "boot"
  /\ avoidList = <<>>
  /\ product = NoProduct
  /\ ingredientsList = <<>>
  /\ matches = NoMatches
  /\ ScanIdle

\* script.js (second script) loadAvoidList
LoadAvoidListLegacy ==
  /\ pc = "boot"
  /\ variant = "legacy"
  /\ avoidList' = loadAvoidListLegacy(data)
  /\ pc' = "ready"
  /\ UNCHANGED <<variant, data, product, ingredientsList, matches, scanVars>>

\* part_001 loadAvoidList
LoadAvoidListItem ==
  /\ pc = "boot"
  /\ variant = "item"
  /\ avoidList' = loadAvoidListItem(data)
  /\ pc' = "ready"
  /\ UNCHANGED <<variant, data, product, ingredientsList, matches, scanVars>>

NextLoad ==
  \/ LoadAvoidListStrict
  \/ LoadAvoidListLoose
  \/ LoadAvoidListLegacy
  \/ LoadAvoidListItem

SpecLoad == InitLoad /\ [][NextLoad]_vars

-----------------------------------------------------------------------------
(* The scan session of script.js (variant "loose": the native detector     *)
(* loop or the ZXing callback, stopped at the first accepted decode) and   *)
(* of part_001 (variant "item": continuous ZXing decoding).  A lookup is   *)
(* started by the decode handler and not awaited; its response arrives in  *)
(* a later task.                                                           *)

\* at most MaxPending detect() promises unsettled
MaxPending == 2
\* at most MaxLookups lookups awaiting their response
MaxLookups == 2
\* Date.now() runs from 0 to MaxTime milliseconds
MaxTime == 3000

\* at most MaxStreams camera streams acquired
MaxStreams == 2

\* '' stands for a frame without a barcode
DecodeTexts == ScanCodes \cup {""}

ScanAvoidDoc == Arr(<<Rec(Str("cheese"), Num(3), Arr(<<>>))>>)

\* the responses of the product API: two products, and NoProduct for a
\* response without a product (data?.product ?? {})
ScanProducts == {Prod("water, cheese", <<>>), Prod("", <<"sugar">>), NoProduct}

\* BarcodeDetector: usable, not in window, without a retail format, or with
\* a constructor that throws
NativeCaps == {"ok", "absent", "noretail", "throws"}
\* the ZXing library: usable, not loadable, or decodeFromVideoDevice throws
ZXingCaps == {"ok", "noload", "throws"}

\* navigator.mediaDevices.getUserMedia: a stream with a video track, a stream
\* without one, or a rejection
CameraOutcomes == {"ok", "notracks", "denied"}

RemoveAt(seq, i) == SubSeq(seq, 1, i - 1) \o SubSeq(seq, i + 1, Len(seq))

\* stream.getTracks().forEach(t => t.stop()) on stream i, nothing for null
StopTracks(ss, i) == IF i = 0 THEN ss ELSE [ss EXCEPT ![i] = FALSE]

\* els.resOK.innerHTML of renderWarnings
NoFlagged(m) ==
  IF Len(m.lvl2) = 0 /\ Len(m.lvl3) = 0
  THEN "No flagged ingredients detected" ELSE "-"

\* part_001 renderWarnings
NoFlaggedItem(m) ==
  IF Len(m.lvl2) = 0 /\ Len(m.lvl3) = 0
  THEN "No Level 2 or Level 3 ingredients detected" ELSE "-"

InitScan ==
  /\ variant \in {"loose", "item"}
  /\ data = ScanAvoidDoc
  /\ pc = "boot"
  /\ avoidList = <<>>
  /\ product = NoProduct
  /\ ingredientsList = <<>>
  /\ matches = NoMatches
  /\ SessionIdle
  /\ caps \in [native : IF variant = "loose" THEN NativeCaps ELSE {"absent"},
               zxing : ZXingCaps]
  \* the ZXing library matters to a native session only by being loadable or not
  /\ caps.native = "ok" => caps.zxing # "throws"

\* time passes
Elapse ==
  /\ now + 1000 <= MaxTime
  /\ now' = now + 1000
  /\ UNCHANGED <<loopVars, timerVars, opening, resBarcode, variant, data, pc, avoidList, product, ingredientsList, matches,
                 engine, scanning, lastCode, lastAt, detects, lookups, fetched,
                 status, resOK, currentStream, streams, nativeStarted,
                 zxingErrorShown, caps>>

\* script.js boot, up to the end of `await loadAvoidList()`
Boot ==
  /\ variant = "loose"
  /\ pc = "boot"
  /\ \E doc \in {data, FetchError} :
       /\ avoidList' = loadAvoidListLoose(doc)
       /\ status' = IF doc = FetchError THEN "Avoid list failed to load."
                    ELSE "Avoid list loaded."
  /\ pc' = "ready"
  /\ UNCHANGED <<loopVars, timerVars, opening, resBarcode, variant, data, product, ingredientsList, matches,
                 engine, scanning, lastCode, lastAt, now, detects, lookups, fetched,
                 resOK, currentStream, streams, nativeStarted, zxingErrorShown, caps>>

\* script.js openStream, called first by boot and by window.startCameraApp;
\* a throw is caught by the caller, which sets the status
OpenStream ==
  /\ variant = "loose"
  /\ pc \in {"ready", "started"}
  /\ Len(streams) < MaxStreams
  /\ \E cam \in CameraOutcomes :
       CASE cam = "ok" ->
              /\ streams' = Append(StopTracks(streams, currentStream), TRUE)
              /\ currentStream' = Len(streams) + 1
              /\ status' = "Requesting camera..."
              /\ pc' = "opened"
         [] cam = "notracks" ->
              /\ streams' = Append(streams, FALSE)
              /\ status' = "Camera error: No video tracks returned."
              /\ UNCHANGED <<currentStream, pc>>
         [] cam = "denied" ->
              /\ status' = "Camera error: NotAllowedError"
              /\ UNCHANGED <<streams, currentStream, pc>>
  /\ UNCHANGED <<loopVars, timerVars, opening, resBarcode, variant, data, avoidList, product, ingredientsList, matches,
                 engine, scanning, lastCode, lastAt, now, detects, lookups, fetched,
                 resOK, nativeStarted, zxingErrorShown, caps>>

\* script.js hasNativeRetailSupport and startNativeScan returning true
StartNativeScan ==
  /\ variant = "loose"
  /\ pc = "opened"
  /\ caps.native = "ok"
  /\ engine' = "native"
  /\ scanning' = TRUE
  /\ nativeStarted' = TRUE
  /\ status' = "Scanning (native)... point camera at the barcode."
  /\ pc' = "started"
  /\ UNCHANGED <<loopVars, timerVars, opening, resBarcode, variant, data, avoidList, product, ingredientsList, matches,
                 lastCode, lastAt, now, detects, lookups, fetched,
                 resOK, currentStream, streams, zxingErrorShown, caps>>

\* mutant: startZXingScan gives up without a status when ZXing is unusable
StartZXingScanSilent ==
  /\ variant = "loose"
  /\ pc = "opened"
  /\ caps.native # "ok"
  /\ pc' = "started"
  /\ IF caps.zxing = "ok" /\ ~nativeStarted
     THEN /\ engine' = "zxing"
          /\ scanning' = TRUE
          /\ status' = "Scanning (ZXing)... point camera at the barcode."
     ELSE UNCHANGED <<engine, scanning, status>>
  /\ UNCHANGED <<loopVars, timerVars, opening, resBarcode, variant, data, avoidList, product, ingredientsList, matches,
                 lastCode, lastAt, now, detects, lookups, fetched, resOK,
                 currentStream, streams, nativeStarted, zxingErrorShown, caps>>

\* mutant: ZXing is started after every openStream, whatever
\* startNativeScan returned and whether or not the native scanner started
StartZXingScanAlways ==
  /\ variant = "loose"
  /\ pc = "opened"
  /\ pc' = "started"
  /\ IF caps.zxing = "noload" /\ ~zxingErrorShown
     THEN /\ zxingErrorShown' = TRUE
          /\ status' = "ZXing not loaded."
          /\ UNCHANGED <<engine, scanning>>
     ELSE IF caps.zxing = "noload"
     THEN /\ status' = "ZXing start error"
          /\ UNCHANGED <<engine, scanning, zxingErrorShown>>
     ELSE IF caps.zxing = "throws"
     THEN /\ scanning' = TRUE
          /\ status' = "ZXing start error"
          /\ UNCHANGED <<engine, zxingErrorShown>>
     ELSE /\ engine' = "zxing"
          /\ scanning' = TRUE
          /\ status' = "Scanning (ZXing)... point camera at the barcode."
          /\ UNCHANGED zxingErrorShown
  /\ UNCHANGED <<loopVars, timerVars, opening, resBarcode, variant, data, avoidList, product, ingredientsList, matches,
                 lastCode, lastAt, now, detects, lookups, fetched,
                 resOK, currentStream, streams, nativeStarted, caps>>

\* script.js startZXingScan, called when hasNativeRetailSupport or
\* startNativeScan returned false
StartZXingScan ==
  /\ variant = "loose"
  /\ pc = "opened"
  /\ caps.native # "ok"
  /\ pc' = "started"
  /\ IF nativeStarted
     THEN UNCHANGED <<engine, scanning, status, zxingErrorShown>>
     ELSE IF caps.zxing = "noload" /\ ~zxingErrorShown
     THEN /\ zxingErrorShown' = TRUE
          /\ status' = "ZXing not loaded."
          /\ UNCHANGED <<engine, scanning>>
     ELSE IF caps.zxing = "noload"
     THEN \* new ZXingBrowser.BrowserMultiFormatReader() throws
          /\ status' = "ZXing start error"
          /\ UNCHANGED <<engine, scanning, zxingErrorShown>>
     ELSE IF caps.zxing = "throws"
     THEN \* scanning = true, then decodeFromVideoDevice throws
          /\ scanning' = TRUE
          /\ status' = "ZXing start error"
          /\ UNCHANGED <<engine, zxingErrorShown>>
     ELSE /\ engine' = "zxing"
          /\ scanning' = TRUE
          /\ status' = "Scanning (ZXing)... point camera at the barcode."
          /\ UNCHANGED zxingErrorShown
  /\ UNCHANGED <<loopVars, timerVars, opening, resBarcode, variant, data, avoidList, product, ingredientsList, matches,
                 lastCode, lastAt, now, detects, lookups, fetched,
                 resOK, currentStream, streams, nativeStarted, caps>>

\* script.js loop(ts), a frame that passes the throttle: the frame is drawn
\* and handed to barcodeDetector.detect, whose promise is left pending
Loop ==
  /\ engine = "native"
  /\ scanning
  /\ detects < MaxPending
  /\ detects' = detects + 1
  /\ UNCHANGED <<loopVars, timerVars, opening, resBarcode, variant, data, pc, avoidList, product, ingredientsList, matches,
                 engine, scanning, lastCode, lastAt, now, lookups, fetched,
                 status, resOK, currentStream, streams, nativeStarted,
                 zxingErrorShown, caps>>

\* text && (text !== lastCode || now - lastAt > 1500)
Accepts(text) == text # "" /\ (text # lastCode \/ now - lastAt > 1500)

\* script.js stopScanning: the flag, the animation frame and the ZXing
\* controls, which act on the stream ZXing opened for itself.  No statement
\* names currentStream.  ZXingBrowser.BrowserCodeReader._stopStreams is
\* called on els.video if the library is loaded and has such a member; what
\* it then does to the stream shown by the video element (currentStream in
\* a native session) is the library's choice.
stopScanning ==
  /\ scanning' = FALSE
  /\ \E stops \in (IF engine = "native" /\ caps.zxing = "ok" THEN BOOLEAN ELSE {FALSE}) :
       streams' = IF stops THEN StopTracks(streams, currentStream) ELSE streams
  /\ UNCHANGED currentStream

\* the body of that if: onBarcode calls fetchAndDisplayProduct, which runs
\* to its `await fetch`; AUTO_STOP_AFTER_DECODE is true, so stopScanning
OnAccept(text) ==
  /\ lastCode' = text
  /\ lastAt' = now
  /\ lookups' = Append(lookups, text)
  /\ fetched' = [fetched EXCEPT ![text] = now]
  /\ status' = "Looking up " \o text \o "..."
  /\ stopScanning

\* script.js: the handler of detect(...).then, for a pending promise
DetectThen ==
  /\ detects > 0
  /\ detects' = detects - 1
  /\ \E text \in DecodeTexts :
       IF Accepts(text)
       THEN Len(lookups) < MaxLookups /\ OnAccept(text)
       ELSE UNCHANGED <<lastCode, lastAt, lookups, scanning, fetched, status,
                        currentStream, streams>>
  /\ UNCHANGED <<loopVars, timerVars, opening, resBarcode, variant, data, pc, avoidList, product, ingredientsList, matches,
                 engine, now, resOK, nativeStarted, zxingErrorShown, caps>>

\* script.js: the callback handed to decodeFromVideoDevice
ZXingCallback ==
  /\ variant = "loose"
  /\ engine = "zxing"
  /\ scanning
  /\ \E text \in DecodeTexts :
       IF Accepts(text)
       THEN Len(lookups) < MaxLookups /\ OnAccept(text)
       ELSE UNCHANGED <<lastCode, lastAt, lookups, scanning, fetched, status,
                        currentStream, streams>>
  /\ UNCHANGED <<loopVars, timerVars, opening, resBarcode, variant, data, pc, avoidList, product, ingredientsList, matches,
                 engine, now, detects, resOK, nativeStarted, zxingErrorShown, caps>>

\* script.js fetchAndDisplayProduct from `await fetch` on, answered with p
FetchResolvedLoose ==
  /\ variant = "loose"
  /\ \E i \in 1..Len(lookups), p \in ScanProducts :
       LET list == buildIngredientsListLoose(trim(p.ingredients_text), p.ingredients)
           m == matchIngredientsLoose(list, avoidList)
       IN /\ product' = p
          /\ ingredientsList' = list
          /\ matches' = m
          /\ resBarcode' = lookups[i]
          /\ resOK' = NoFlagged(m)
          /\ lookups' = RemoveAt(lookups, i)
  /\ status' = "Ingredients loaded. Matches evaluated."
  /\ UNCHANGED <<loopVars, timerVars, opening, variant, data, pc, avoidList,
                 engine, scanning, lastCode, lastAt, now, detects, fetched,
                 currentStream, streams, nativeStarted, zxingErrorShown, caps>>

\* mutant: the catch branch also drops the avoid list
CatchLookupClears ==
  /\ status' = "Lookup failed. Try again."
  /\ avoidList' = <<>>
  /\ UNCHANGED <<loopVars, timerVars, opening, resBarcode, variant, data, pc, product, ingredientsList, matches,
                 engine, scanning, lastCode, lastAt, now, detects, fetched,
                 resOK, currentStream, streams, nativeStarted, zxingErrorShown, caps>>

\* the catch branch of fetchAndDisplayProduct: fetch rejected or res.json() threw
CatchLookup ==
  /\ status' = "Lookup failed. Try again."
  /\ UNCHANGED <<loopVars, timerVars, opening, resBarcode, variant, data, pc, avoidList, product, ingredientsList, matches,
                 engine, scanning, lastCode, lastAt, now, detects, fetched,
                 resOK, currentStream, streams, nativeStarted, zxingErrorShown, caps>>

\* fetchAndDisplayProduct, a lookup that fails
FetchRejected ==
  /\ \E i \in 1..Len(lookups) : lookups' = RemoveAt(lookups, i)
  /\ CatchLookup

\* part_001 startCamera, from the start button, the flip button or
\* DOMContentLoaded: loadAvoidList, openStream, attachStream, startDecoding
StartCamera ==
  /\ variant = "item"
  /\ Len(streams) < MaxStreams
  /\ pc' = "started"
  /\ \E doc \in {data, FetchError} : avoidList' = loadAvoidListItem(doc)
  /\ \E cam \in CameraOutcomes :
       CASE cam = "ok" ->
              /\ streams' = Append(StopTracks(streams, currentStream), TRUE)
              /\ currentStream' = Len(streams) + 1
              /\ IF caps.zxing = "noload"
                 THEN /\ status' = "ZXing library not loaded. Check CDN <script> order."
                      /\ UNCHANGED <<engine, scanning>>
                 ELSE \* stopDecoding(), zxingActive = true, decodeFromVideoDevice
                      /\ scanning' = TRUE
                      /\ IF caps.zxing = "throws"
                         THEN /\ status' = "ZXing failed to start decoding"
                              /\ UNCHANGED engine
                         ELSE /\ status' = "Scanning... point camera at the barcode."
                              /\ engine' = "zxing"
         [] cam = "notracks" ->
              /\ streams' = Append(streams, FALSE)
              /\ status' = "Requesting camera..."
              /\ UNCHANGED <<currentStream, engine, scanning>>
         [] cam = "denied" ->
              /\ status' = "Requesting camera..."
              /\ UNCHANGED <<streams, currentStream, engine, scanning>>
  /\ UNCHANGED <<loopVars, timerVars, opening, resBarcode, variant, data, product, ingredientsList, matches,
                 lastCode, lastAt, now, detects, lookups, fetched,
                 resOK, nativeStarted, zxingErrorShown, caps>>

\* part_001 stopStream, from the stop button: stopDecoding, then the tracks
StopStream ==
  /\ variant = "item"
  /\ currentStream # 0
  /\ scanning' = FALSE
  /\ streams' = StopTracks(streams, currentStream)
  /\ currentStream' = 0
  /\ status' = "Camera stopped."
  /\ UNCHANGED <<loopVars, timerVars, opening, resBarcode, variant, data, pc, avoidList, product, ingredientsList, matches,
                 engine, lastCode, lastAt, now, detects, lookups, fetched,
                 resOK, nativeStarted, zxingErrorShown, caps>>

\* part_001 shouldFetch
shouldFetch(code) ==
  IF code = "" THEN FALSE
  ELSE IF code # lastCode THEN TRUE
  ELSE now - lastAt > 2000

\* part_001: the callback handed to decodeFromVideoDevice
DecodeCallbackItem ==
  /\ variant = "item"
  /\ scanning
  /\ caps.zxing = "ok"
  /\ \E code \in DecodeTexts :
       IF shouldFetch(code)
       THEN /\ Len(lookups) < MaxLookups
            /\ lastCode' = code
            /\ lastAt' = now
            /\ lookups' = Append(lookups, code)
            /\ fetched' = [fetched EXCEPT ![code] = now]
            /\ status' = "Looking up " \o code \o "..."
       ELSE UNCHANGED <<lastCode, lastAt, lookups, fetched, status>>
  /\ UNCHANGED <<loopVars, timerVars, opening, resBarcode, variant, data, pc, avoidList, product, ingredientsList, matches,
                 engine, scanning, now, detects,
                 resOK, currentStream, streams, nativeStarted, zxingErrorShown, caps>>

\* part_001 fetchAndDisplayProduct from `await fetch` on
FetchResolvedItem ==
  /\ variant = "item"
  /\ \E i \in 1..Len(lookups), p \in ScanProducts :
       LET list == buildIngredientsListItem(trim(p.ingredients_text), p.ingredients)
           m == matchIngredientsItem(list, avoidList)
       IN /\ product' = p
          /\ ingredientsList' = list
          /\ matches' = m
          /\ resBarcode' = lookups[i]
          /\ resOK' = NoFlaggedItem(m)
          /\ lookups' = RemoveAt(lookups, i)
  /\ status' = "Ingredients loaded. Matches evaluated."
  /\ UNCHANGED <<loopVars, timerVars, opening, variant, data, pc, avoidList,
                 engine, scanning, lastCode, lastAt, now, detects, fetched,
                 currentStream, streams, nativeStarted, zxingErrorShown, caps>>

NextScan ==
  \/ Boot
  \/ Elapse
  \/ OpenStream
  \/ StartNativeScan
  \/ StartZXingScan
  \/ Loop
  \/ DetectThen
  \/ ZXingCallback
  \/ FetchResolvedLoose
  \/ FetchRejected
  \/ StartCamera
  \/ StopStream
  \/ DecodeCallbackItem
  \/ FetchResolvedItem

SpecScan == InitScan /\ [][NextScan]_vars

-----------------------------------------------------------------------------
(* The native loop of script.js frame by frame: requestAnimationFrame      *)
(* calls loop(ts) with the frame's timestamp, whatever the frame rate.     *)

SCAN_INTERVAL_MS == 200

MaxTs == 700

\* the time between two animation frames, in ms
FrameDeltas == {50, 120, 250}

\* script.js after startNativeScan returned true: the stream is open, the
\* first animation frame is requested, lastTick = 0
InitLoop ==
  /\ variant = "loose"
  /\ data = ScanAvoidDoc
  /\ pc = "started"
  /\ avoidList = loadAvoidListLoose(data)
  /\ product = NoProduct
  /\ ingredientsList = <<>>
  /\ matches = NoMatches
  /\ engine = "native"
  /\ scanning = TRUE
  /\ lastCode = NoCode
  /\ lastAt = 0
  /\ now = 0
  /\ detects = 0
  /\ lookups = <<>>
  /\ fetched = [c \in ScanCodes |-> NotFetched]
  /\ status = "Scanning (native)... point camera at the barcode."
  /\ resOK = Blank
  /\ resBarcode = Blank
  /\ currentStream = 1
  /\ streams = <<TRUE>>
  /\ nativeStarted = TRUE
  /\ zxingErrorShown = FALSE
  /\ caps \in [native : {"ok"}, zxing : {"ok", "noload"}]
  /\ ts = 0
  /\ lastTick = 0
  /\ frames = <<>>
  /\ scanTimer = 0
  /\ timers = <<>>
  /\ startDisabled = FALSE
  /\ opening = 0

\* mutant: every animation frame is handed to the detector
loopUnthrottled ==
  /\ variant = "loose"
  /\ engine = "native"
  /\ scanning
  /\ detects < MaxPending
  /\ \E d \in FrameDeltas, hasSize \in BOOLEAN :
       /\ ts + d <= MaxTs
       /\ ts' = ts + d
       /\ lastTick' = ts'
       /\ IF hasSize
          THEN frames' = Append(frames, ts') /\ detects' = detects + 1
          ELSE UNCHANGED <<frames, detects>>
  /\ UNCHANGED <<resBarcode, timerVars, opening, variant, data, pc, avoidList, product, ingredientsList, matches,
                 engine, scanning, lastCode, lastAt, now, lookups, fetched,
                 status, resOK, currentStream, streams, nativeStarted,
                 zxingErrorShown, caps>>

\* script.js loop(ts), called d ms after the previous frame; hasSize: the
\* video element has its dimensions.  A frame is requested again only
\* while scanning is true.
loop ==
  /\ variant = "loose"
  /\ engine = "native"
  /\ scanning
  /\ detects < MaxPending
  /\ \E d \in FrameDeltas, hasSize \in BOOLEAN :
       /\ ts + d <= MaxTs
       /\ ts' = ts + d
       /\ IF ts' - lastTick < SCAN_INTERVAL_MS
          THEN UNCHANGED <<lastTick, frames, detects>>
          ELSE /\ lastTick' = ts'
               /\ IF hasSize
                  THEN frames' = Append(frames, ts') /\ detects' = detects + 1
                  ELSE UNCHANGED <<frames, detects>>
  /\ UNCHANGED <<resBarcode, timerVars, opening, variant, data, pc, avoidList, product, ingredientsList, matches,
                 engine, scanning, lastCode, lastAt, now, lookups, fetched,
                 status, resOK, currentStream, streams, nativeStarted,
                 zxingErrorShown, caps>>

NextLoop ==
  \/ loop
  \/ DetectThen
  \/ FetchResolvedLoose
  \/ FetchRejected

SpecLoop == InitLoop /\ [][NextLoop]_vars

-----------------------------------------------------------------------------
(* The manual ingredients check of part_002 (variant "expanded": the       *)
(* avoid list is normalised, expanded and filtered to level 2 and above)   *)
(* and of part_006 (variant "keywords": the match_keywords of the list     *)
(* are the needles).                                                       *)

AVOID_LEVEL_MIN == 2

\* clean = s => (s || '').trim(), isBlank = s => !s || !s.trim()
clean(s) == trim(s)
isBlank(s) == s = "" \/ trim(s) = ""

Join(seq, sep) ==
  LET RECURSIVE J(_)
      J(k) == IF k = 0 THEN ""
              ELSE IF k = 1 THEN seq[1] ELSE J(k - 1) \o sep \o seq[k]
  IN J(Len(seq))

\* [,;|\/&]
CompositeSeps == {",", ";", "|", "/", "&"}

\* the matches of /\band\b/i in s from position p on, each written as ","
RECURSIVE AndToComma(_, _)
AndToComma(s, p) ==
  IF p > Len(s) THEN ""
  ELSE IF /\ p + 2 <= Len(s)
          /\ toLowerCase(SubSeq(s, p, p + 2)) = "and"
          /\ WordBoundary(s, p)
          /\ WordBoundary(s, p + 3)
       THEN "," \o AndToComma(s, p + 3)
       ELSE CharAt(s, p) \o AndToComma(s, p + 1)

\* clean(label).split(/\s*(?:[,;|\/&]|(?:\band\b))\s*/i).map(trim).filter(Boolean)
splitComposite(label) ==
  LET parts == Split(AndToComma(clean(label), 1), CompositeSeps, FALSE)
  IN FilterBoolean([i \in 1..Len(parts) |-> trim(parts[i])])

RECURSIVE FirstOpen(_, _)
FirstOpen(s, i) ==
  IF i > Len(s) THEN 0
  ELSE IF CharAt(s, i) = "(" THEN i ELSE FirstOpen(s, i + 1)

\* /\(([^)]*)\)/.exec(label): the first "(" and the first ")" after it
extractParenParts(label) ==
  LET o == FirstOpen(label, 1)
      c == IF o = 0 THEN 0 ELSE FirstClose(label, o + 1)
  IN IF o = 0 \/ c = 0 \/ c = o + 1 THEN <<>>
     ELSE splitComposite(SubSeq(label, o + 1, c - 1))

\* a row of avoid_terms; term, category and group are strings, level is any
\* JSON value
Row(term, level, category, group) ==
  [t |-> "object", term |-> term, level |-> level,
   category |-> category, group |-> group]

\* the two shapes of the avoid-list document
TermsDoc(rows) == [t |-> "object", avoid_terms |-> Arr(rows)]
KeywordsDoc(kws) == [t |-> "object", match_keywords |-> Arr(kws)]

\* Number(v) || 1
NumberOr1(v) == LET n == ToNumber(v) IN IF Truthy(n) THEN n.n ELSE 1

normalizeAvoidList(avoidJson) ==
  LET terms == Field(avoidJson, "avoid_terms")
      kws == Field(avoidJson, "match_keywords")
  IN IF terms.t = "array"
     THEN [i \in 1..Len(terms.a) |->
             [term |-> clean(terms.a[i].term),
              level |-> NumberOr1(terms.a[i].level),
              category |-> clean(terms.a[i].category),
              group |-> clean(terms.a[i].group)]]
     ELSE IF kws.t = "array"
     THEN [i \in 1..Len(kws.a) |->
             [term |-> clean(kws.a[i]), level |-> 1, category |-> "", group |-> ""]]
     ELSE <<>>

\* the collation order of the characters the modelled terms are made of
\* (white space, punctuation, digits, letters), letters of either case alike
COLLATION == " ,;()/&|0123456789abcdefghijklmnopqrstuvwxyz"

Rank(c) == CHOOSE k \in 1..Len(COLLATION) : CharAt(COLLATION, k) = toLowerCase(c)

RECURSIVE PrimaryCompare(_, _)
PrimaryCompare(a, b) ==
  IF a = "" THEN (IF b = "" THEN 0 ELSE 0 - 1)
  ELSE IF b = "" THEN 1
  ELSE IF Rank(CharAt(a, 1)) < Rank(CharAt(b, 1)) THEN 0 - 1
  ELSE IF Rank(CharAt(a, 1)) > Rank(CharAt(b, 1)) THEN 1
  ELSE PrimaryCompare(SubSeq(a, 2, Len(a)), SubSeq(b, 2, Len(b)))

\* strings equal but for case: the lower-case letter first at the first difference
RECURSIVE CaseCompare(_, _)
CaseCompare(a, b) ==
  IF a = "" THEN 0
  ELSE IF CharAt(a, 1) = CharAt(b, 1)
       THEN CaseCompare(SubSeq(a, 2, Len(a)), SubSeq(b, 2, Len(b)))
       ELSE IF CharAt(a, 1) \in LowerSet THEN 0 - 1 ELSE 1

\* a.localeCompare(b)
localeCompare(a, b) ==
  LET p == PrimaryCompare(a, b) IN IF p # 0 THEN p ELSE CaseCompare(a, b)

\* Array.prototype.sort with comparator Cmp (stable)
SortStable(seq, Cmp(_, _)) ==
  LET Before(j, i) == Cmp(seq[j], seq[i]) < 0 \/ (Cmp(seq[j], seq[i]) = 0 /\ j < i)
      At(k) == CHOOSE i \in 1..Len(seq) :
                  Cardinality({j \in 1..Len(seq) : Before(j, i)}) = k - 1
  IN [k \in 1..Len(seq) |-> seq[At(k)]]

\* the first non-zero of the comparisons a || b || c
OrCmp(a, b, c) == IF a # 0 THEN a ELSE IF b # 0 THEN b ELSE c

\* the rows one avoid-list row expands to: the label, its parenthesised
\* parts, the components of a composite label
ExpandRow(row) ==
  IF isBlank(row.term) \/ row.level < AVOID_LEVEL_MIN THEN <<>>
  ELSE LET e(term) == [term |-> term, level |-> row.level,
                       category |-> clean(row.category), group |-> clean(row.group)]
           subparts == extractParenParts(row.term)
           comps == splitComposite(row.term)
           others == SelectSeq(comps, LAMBDA c : toLowerCase(c) # toLowerCase(row.term))
       IN <<e(row.term)>>
          \o [i \in 1..Len(subparts) |-> e(subparts[i])]
          \o (IF Len(comps) > 1 THEN [i \in 1..Len(others) |-> e(others[i])] ELSE <<>>)

DedupKey(e) ==
  toLowerCase(e.term) \o "|" \o DigitsOf(e.level) \o "|"
    \o toLowerCase(e.category) \o "|" \o toLowerCase(e.group)

RECURSIVE Dedup(_)
Dedup(expanded) ==
  IF expanded = <<>> THEN <<>>
  ELSE LET r == Dedup(SubSeq(expanded, 1, Len(expanded) - 1))
           e == expanded[Len(expanded)]
       IN IF \E i \in 1..Len(r) : DedupKey(r[i]) = DedupKey(e) THEN r ELSE Append(r, e)

expandAvoidList(avoidJson) ==
  LET base == normalizeAvoidList(avoidJson)
      expanded == Flatten([i \in 1..Len(base) |-> ExpandRow(base[i])])
  IN SortStable(Dedup(expanded),
                LAMBDA a, b : OrCmp(b.level - a.level,
                                    localeCompare(a.category, b.category),
                                    localeCompare(a.term, b.term)))

\* the Map of buildTokenIndex, in insertion order
RECURSIVE buildTokenIndex(_)
buildTokenIndex(entries) ==
  IF entries = <<>> THEN <<>>
  ELSE LET idx == buildTokenIndex(SubSeq(entries, 1, Len(entries) - 1))
           e == entries[Len(entries)]
           token == toLowerCase(e.term)
       IN IF \E k \in 1..Len(idx) : idx[k].token = token
          THEN [k \in 1..Len(idx) |->
                  IF idx[k].token = token
                  THEN [idx[k] EXCEPT !.entries = Append(@, e)]
                  ELSE idx[k]]
          ELSE Append(idx, [token |-> token, entries |-> <<e>>])

\* the indexes (from 0) of the successive matches of new RegExp(token, 'gi')
RECURSIVE ExecAll(_, _, _)
ExecAll(src, token, p) ==
  IF p + Len(token) - 1 > Len(src) THEN <<>>
  ELSE IF toLowerCase(SubSeq(src, p, p + Len(token) - 1)) = token
       THEN <<p - 1>> \o ExecAll(src, token, p + Len(token))
       ELSE ExecAll(src, token, p + 1)

\* the entries of one token with a term not seen before
RECURSIVE FirstPerTerm(_)
FirstPerTerm(entries) ==
  IF entries = <<>> THEN <<>>
  ELSE LET r == FirstPerTerm(SubSeq(entries, 1, Len(entries) - 1))
           e == entries[Len(entries)]
       IN IF \E i \in 1..Len(r) : r[i].term = e.term THEN r ELSE Append(r, e)

matchAvoidTerms(text, tokenIndex) ==
  LET DetailsOf(t) ==
        LET at == ExecAll(text, t.token, 1)
            kept == FirstPerTerm(t.entries)
        IN IF at = <<>> THEN <<>>
           ELSE [i \in 1..Len(kept) |->
                   [term |-> kept[i].term, level |-> kept[i].level,
                    category |-> kept[i].category, hits |-> Len(at),
                    positions |-> [k \in 1..Len(at) |-> <<at[k], at[k] + Len(t.token)>>]]]
      details == Flatten([k \in 1..Len(tokenIndex) |-> DetailsOf(tokenIndex[k])])
  IN SortStable(details,
                LAMBDA a, b : OrCmp(b.level - a.level, b.hits - a.hits,
                                    localeCompare(a.term, b.term)))

\* part_006 norm
norm(s) ==
  trim(Join(Split(RemoveParenthesised(toLowerCase(s)), AlnumLower, TRUE), " "))

\* part_006 findMatches; matchKeywords in the insertion order of the Set
findMatches(arr, matchKeywords) ==
  LET Hit(key) == \E i \in 1..Len(arr) :
                     norm(arr[i]) # "" /\ key # "" /\ Includes(norm(arr[i]), key)
      First(key) == CHOOSE i \in 1..Len(arr) :
                       /\ norm(arr[i]) # "" /\ Includes(norm(arr[i]), key)
                       /\ \A j \in 1..(i - 1) :
                             ~(norm(arr[j]) # "" /\ Includes(norm(arr[j]), key))
      found == SelectSeq(matchKeywords, Hit)
  IN SortStable(found,
                LAMBDA a, b :
                  IF First(a) # First(b) THEN First(a) - First(b) ELSE 0)

\* rawText.split(/[;,.\|]+/).map(trim).filter(Boolean)
SplitIngredients(rawText) ==
  LET parts == Split(rawText, {";", ",", ".", "|"}, FALSE)
  IN FilterBoolean([i \in 1..Len(parts) |-> trim(parts[i])])

\* the summary line of renderResultDetailed and of renderResult
Safe(details) == details = <<>>

MaxRows == 2

CheckTerms == {"msg", "Cheese (brie)", "salt and sugar", " "}

CheckLevels == {Num(1), Num(2), Str("3"), Undef}

CheckRows == {Row(t, l, "", "") : t \in CheckTerms, l \in CheckLevels}
               \cup {Row("Brie", Num(3), "dairy", "")}

\* the avoid-list documents: avoid_terms rows, or the match_keywords of the
\* legacy shape (lower-case, as part_006 compares them)
CheckDocs ==
  {TermsDoc(rows) : rows \in SeqsUpTo(CheckRows, MaxRows)}
    \cup {KeywordsDoc(kws) : kws \in SeqsUpTo(CheckTerms \cup {"brie", "sugar"}, MaxRows)}

CheckTexts == {"", "Water, MSG", "cheese (Brie), salt and sugar", "brie; msg. brie"}

InitCheck ==
  /\ variant \in {"expanded", "keywords"}
  /\ data \in CheckDocs
  /\ pc = "boot"
  /\ avoidList = <<>>
  /\ product = NoProduct
  /\ ingredientsList = <<>>
  /\ matches = <<>>
  /\ ScanIdle

\* part_002: avoidJson = await loadAvoidList(); expandAvoidList; buildTokenIndex
LoadExpanded ==
  /\ pc = "boot"
  /\ variant = "expanded"
  /\ avoidList' = buildTokenIndex(expandAvoidList(data))
  /\ pc' = "ready"
  /\ UNCHANGED <<variant, data, product, ingredientsList, matches, scanVars>>

\* part_006: matchKeywords = new Set(avoid.match_keywords || []), the list
\* {match_keywords: []} when the fetch fails
LoadKeywords ==
  /\ pc = "boot"
  /\ variant = "keywords"
  /\ \E doc \in {data, FetchError} :
        avoidList' = IF doc = FetchError THEN <<>>
                     ELSE uniq(ArrayOrEmpty(Field(doc, "match_keywords")))
  /\ pc' = "ready"
  /\ UNCHANGED <<variant, data, product, ingredientsList, matches, scanVars>>

\* part_002: the click handler of checkIngredientsBtn
CheckIngredientsExpanded ==
  /\ pc \in {"ready", "checked"}
  /\ variant = "expanded"
  /\ \E text \in CheckTexts :
        LET rawText == trim(text)
            arr == SplitIngredients(rawText)
            srcText == IF Len(arr) > 0 THEN Join(arr, ", ") ELSE rawText
        IN /\ product' = Prod(text, <<>>)
           /\ ingredientsList' = arr
           /\ matches' = matchAvoidTerms(srcText, avoidList)
  /\ pc' = "checked"
  /\ UNCHANGED <<variant, data, avoidList, scanVars>>

\* part_006: the click handler of checkIngredientsBtn
CheckIngredientsKeywords ==
  /\ pc \in {"ready", "checked"}
  /\ variant = "keywords"
  /\ \E text \in CheckTexts :
        LET arr == SplitIngredients(text)
        IN /\ product' = Prod(text, <<>>)
           /\ ingredientsList' = arr
           /\ matches' = findMatches(arr, avoidList)
  /\ pc' = "checked"
  /\ UNCHANGED <<variant, data, avoidList, scanVars>>

NextCheck ==
  \/ LoadExpanded
  \/ LoadKeywords
  \/ CheckIngredientsExpanded
  \/ CheckIngredientsKeywords

SpecCheck == InitCheck /\ [][NextCheck]_vars

-----------------------------------------------------------------------------
(* The camera scan of part_002 (variant "expanded") and part_006 (variant  *)
(* "keywords") with the native detector: a 500 ms interval timer calls     *)
(* detector.detect, the first decode clears the timer, awaits              *)
(* lookupBarcode and then calls stopScan.  mediaStream is currentStream,   *)
(* a lookup in flight is <<barcode, the stream it was decoded from>>.      *)

TimerDoc ==
  IF variant = "expanded"
  THEN TermsDoc(<<Row("cheese", Num(3), "dairy", "")>>)
  ELSE KeywordsDoc(<<"sugar">>)

InitTimer ==
  /\ variant \in {"expanded", "keywords"}
  /\ data = TimerDoc
  /\ pc = "ready"
  /\ avoidList = IF variant = "expanded"
                 THEN buildTokenIndex(expandAvoidList(data))
                 ELSE uniq(ArrayOrEmpty(Field(data, "match_keywords")))
  /\ product = NoProduct
  /\ ingredientsList = <<>>
  /\ matches = <<>>
  /\ SessionIdle
  /\ caps = [native |-> "ok", zxing |-> "ok"]

\* startScanNative, from the click on startBtn: getUserMedia, play, the
\* buttons, setInterval; a refused camera ends in the catch
StartScanNative ==
  /\ variant \in {"expanded", "keywords"}
  /\ ~startDisabled
  /\ Len(streams) < MaxStreams
  /\ \E cam \in {"ok", "denied"} :
       IF cam = "ok"
       THEN /\ streams' = Append(streams, TRUE)
            /\ currentStream' = Len(streams) + 1
            /\ startDisabled' = TRUE
            /\ timers' = Append(timers, TRUE)
            /\ scanTimer' = Len(timers) + 1
       ELSE /\ variant = "keywords"
            /\ UNCHANGED <<streams, currentStream, timerVars>>
  /\ UNCHANGED <<variant, data, pc, avoidList, product, ingredientsList, matches,
                 engine, scanning, lastCode, lastAt, now, detects, lookups, fetched,
                 status, resOK, nativeStarted, zxingErrorShown, caps, loopVars,
                 resBarcode, opening>>

\* mutant: stopScan leaves the timer and the stream alone
stopScanButtonsOnly ==
  /\ startDisabled' = FALSE
  /\ UNCHANGED <<timers, scanTimer, streams, currentStream>>

\* stopScan: the buttons, clearInterval(scanTimer), the tracks of mediaStream
stopScan ==
  /\ startDisabled' = FALSE
  /\ timers' = IF scanTimer # 0 THEN [timers EXCEPT ![scanTimer] = FALSE] ELSE timers
  /\ scanTimer' = 0
  /\ streams' = StopTracks(streams, currentStream)
  /\ currentStream' = 0

\* the click on stopBtn
StopClick ==
  /\ variant \in {"expanded", "keywords"}
  /\ startDisabled
  /\ stopScan
  /\ UNCHANGED <<variant, data, pc, avoidList, product, ingredientsList, matches,
                 engine, scanning, lastCode, lastAt, now, detects, lookups, fetched,
                 status, resOK, nativeStarted, zxingErrorShown, caps, loopVars,
                 resBarcode, opening>>

\* the interval callback of a timer that was not cleared, up to
\* `await detector.detect(videoEl)`
IntervalTick ==
  /\ variant \in {"expanded", "keywords"}
  /\ \E i \in 1..Len(timers) : timers[i]
  /\ detects < MaxPending
  /\ detects' = detects + 1
  /\ UNCHANGED <<variant, data, pc, avoidList, product, ingredientsList, matches,
                 engine, scanning, lastCode, lastAt, now, lookups, fetched,
                 status, resOK, currentStream, streams, nativeStarted,
                 zxingErrorShown, caps, loopVars, resBarcode, timerVars, opening>>

\* the interval callback from the answer of detect on: with a barcode,
\* clearInterval(scanTimer) and lookupBarcode up to its `await fetch`
DetectAnswered ==
  /\ variant \in {"expanded", "keywords"}
  /\ detects > 0
  /\ detects' = detects - 1
  /\ \E raw \in DecodeTexts :
       IF raw = ""
       THEN UNCHANGED <<timers, lookups>>
       ELSE /\ Len(lookups) < MaxLookups
            /\ timers' = IF scanTimer # 0
                          THEN [timers EXCEPT ![scanTimer] = FALSE] ELSE timers
            /\ lookups' = Append(lookups, <<raw, currentStream>>)
  /\ UNCHANGED <<variant, data, pc, avoidList, product, ingredientsList, matches,
                 engine, scanning, lastCode, lastAt, now, fetched,
                 status, resOK, currentStream, streams, nativeStarted,
                 zxingErrorShown, caps, loopVars, resBarcode, scanTimer,
                 startDisabled, opening>>

\* lookupBarcode from the answer of the product API on (p = NoProduct: the
\* product is not found), then the stopScan of the interval callback
LookupAnswered ==
  /\ variant \in {"expanded", "keywords"}
  /\ \E i \in 1..Len(lookups), p \in ScanProducts :
       LET rawText == trim(p.ingredients_text)
           arr == IF Len(p.ingredients) > 0 THEN p.ingredients
                  ELSE SplitIngredients(rawText)
           srcText == IF Len(arr) > 0 THEN Join(arr, ", ") ELSE rawText
       IN /\ lookups' = RemoveAt(lookups, i)
          /\ product' = p
          /\ ingredientsList' = IF p = NoProduct THEN <<>> ELSE arr
          /\ matches' = IF p = NoProduct THEN <<>>
                        ELSE IF variant = "expanded"
                        THEN matchAvoidTerms(srcText, avoidList)
                        ELSE findMatches(arr, avoidList)
  /\ stopScan
  /\ UNCHANGED <<variant, data, pc, avoidList,
                 engine, scanning, lastCode, lastAt, now, detects, fetched,
                 status, resOK, nativeStarted, zxingErrorShown, caps, loopVars,
                 resBarcode, opening>>

NextTimer ==
  \/ StartScanNative
  \/ StopClick
  \/ IntervalTick
  \/ DetectAnswered
  \/ LookupAnswered

SpecTimer == InitTimer /\ [][NextTimer]_vars

-----------------------------------------------------------------------------
(* openStream of script.js (variant "loose") and of part_001 (variant      *)
(* "item") in two steps, the call up to `await getUserMedia` and the rest  *)
(* from its answer on, so that several calls can be in flight together.    *)
(* opening counts the calls that wait for getUserMedia.                    *)

MaxOpens == 3

InitOpen ==
  /\ variant \in {"loose", "item"}
  /\ data = ScanAvoidDoc
  /\ pc = "ready"
  /\ avoidList = <<>>
  /\ product = NoProduct
  /\ ingredientsList = <<>>
  /\ matches = NoMatches
  /\ SessionIdle
  /\ caps \in [native : IF variant = "loose" THEN NativeCaps ELSE {"absent"},
               zxing : ZXingCaps]

\* openStream up to `await navigator.mediaDevices.getUserMedia(constraints)`
openStreamCall ==
  /\ variant \in {"loose", "item"}
  /\ Len(streams) + opening < MaxOpens
  /\ opening' = opening + 1
  /\ status' = "Requesting camera..."
  /\ UNCHANGED <<loopVars, timerVars, resBarcode, variant, data, pc, avoidList,
                 product, ingredientsList, matches, engine, scanning, lastCode,
                 lastAt, now, detects, lookups, fetched, resOK, currentStream,
                 streams, nativeStarted, zxingErrorShown, caps>>

\* mutant: the new stream becomes current and the old one keeps its tracks
attachStreamKeepOld(ss, cur) == Append(ss, TRUE)

\* if (currentStream) currentStream.getTracks().forEach(t => t.stop());
\* currentStream = stream
attachStream(ss, cur) == Append(StopTracks(ss, cur), TRUE)

\* part_001 startDecoding, awaited at the end of attachStream
startDecoding ==
  IF caps.zxing = "noload"
  THEN /\ status' = "ZXing library not loaded. Check CDN <script> order."
       /\ UNCHANGED <<engine, scanning>>
  ELSE /\ scanning' = TRUE
       /\ IF caps.zxing = "throws"
          THEN /\ status' = "ZXing failed to start decoding"
               /\ UNCHANGED engine
          ELSE /\ status' = "Scanning... point camera at the barcode."
               /\ engine' = "zxing"

\* openStream from the answer of getUserMedia on: a rejection, a stream
\* without video tracks (stopped, then a throw), or a stream that replaces
\* currentStream.  The throw of script.js is caught by startCameraApp, that
\* of part_001 by startCamera, which only alerts.
openStreamResumed ==
  /\ variant \in {"loose", "item"}
  /\ opening > 0
  /\ opening' = opening - 1
  /\ \E cam \in CameraOutcomes :
       CASE cam = "ok" ->
              /\ streams' = attachStream(streams, currentStream)
              /\ currentStream' = Len(streams) + 1
              /\ IF variant = "item"
                 THEN startDecoding /\ pc' = "started"
                 ELSE pc' = "opened" /\ UNCHANGED <<status, engine, scanning>>
         [] cam = "notracks" ->
              /\ streams' = Append(streams, FALSE)
              /\ status' = IF variant = "loose"
                           THEN "Camera error: No video tracks returned."
                           ELSE status
              /\ UNCHANGED <<currentStream, pc, engine, scanning>>
         [] cam = "denied" ->
              /\ status' = IF variant = "loose"
                           THEN "Camera error: NotAllowedError" ELSE status
              /\ UNCHANGED <<streams, currentStream, pc, engine, scanning>>
  /\ UNCHANGED <<loopVars, timerVars, resBarcode, variant, data, avoidList,
                 product, ingredientsList, matches, lastCode,
                 lastAt, now, detects, lookups, fetched, resOK,
                 nativeStarted, zxingErrorShown, caps>>

NextOpen == openStreamCall \/ openStreamResumed

SpecOpen == InitOpen /\ [][NextOpen]_vars

-----------------------------------------------------------------------------
(* Properties.                                                             *)

Results == Range(matches.lvl2) \cup Range(matches.lvl3)
Matched == pc \in {"rendered", "matched"}
Entries == Range(avoidList)
Tokens == Range(ingredientsList)

\* the terms of a strict entry that compile to a pattern, each with its pattern
TermPatterns(e) ==
  {tp \in {<<e.terms[k], buildStrictPatternForTerm(e.terms[k])>> : k \in 1..Len(e.terms)} :
     tp[2] # NoPattern}

\* C1: a result is in the level-3 bucket only for an entry of level 3 and in the
\* level-2 bucket only for an entry of level 2; an entry of level below 2
\* contributes no result.
C1_BucketsHoldOnlyTheirLevel ==
  Matched =>
    /\ \A r \in Range(matches.lvl3) :
         \E e \in Entries : e.name = r.name /\ StrictEqNum(e.level, 3)
    /\ \A r \in Range(matches.lvl2) :
         \E e \in Entries : e.name = r.name /\ StrictEqNum(e.level, 2)

\* s without its separator characters (white space and hyphens), lowercased
Squeeze(s) == StrMap([c \in SepSet |-> ""], toLowerCase(s))

\* term occurs in ing as a whole word or phrase: some span of ing spells the term
\* (up to case and separators) and has no word character next to it on either side
WholeOccurrence(term, ing) ==
  \E i \in 1..Len(ing) : \E j \in i..Len(ing) :
     /\ ~IsWordAt(ing, i - 1)
     /\ ~IsWordAt(ing, j + 1)
     /\ Squeeze(SubSeq(ing, i, j)) = Squeeze(stripDiacritics(trim(term)))

\* C2: in strict mode a term matches a token only where the term occurs with no
\* word character immediately before or after it; every reported result comes
\* from such an occurrence.
C2_StrictMatchesOnlyWholeWords ==
  (variant = "strict" /\ Matched) =>
    /\ \A e \in Entries : \A tp \in TermPatterns(e) : \A ing \in Tokens :
         RegexTest(tp[2], ing) => WholeOccurrence(tp[1], ing)
    /\ \A r \in Results :
         \E e \in Entries : \E k \in 1..Len(e.terms) : \E ing \in Tokens :
            WholeOccurrence(e.terms[k], ing) /\ Squeeze(r.term) = Squeeze(e.terms[k])

\* C2 witness: the term "oil" lies inside the first token ("boiled") without
\* matching it, and matches a later token as a whole word.
C2_Witness ==
  /\ variant = "strict" /\ pc = "matched"
  /\ Len(ingredientsList) = 2
  /\ \E e \in Entries : \E k \in 1..Len(e.terms) :
        /\ e.terms[k] # ""
        /\ Includes(ingredientsList[1], e.terms[k])
        /\ ~WholeOccurrence(e.terms[k], ingredientsList[1])
        /\ matches.lvl3 = <<[term |-> e.terms[k], name |-> e.name]>>

\* C3: in strict mode a deny-listed generic word never produces a match, also
\* when it is the canonical name or a whole synonym of the entry.
C3_DenylistedWordNeverMatches ==
  (variant = "strict" /\ Matched) =>
    \A r \in Results : toLowerCase(r.term) \notin GENERIC_SINGLE_WORDS

\* the digits of an E-number written e / E, an optional space or hyphen, digits;
\* "" when s is not of that form
ENumberDigits(s) ==
  IF Len(s) < 2 \/ toLowerCase(CharAt(s, 1)) # "e" THEN ""
  ELSE LET rest == SubSeq(s, 2, Len(s))
           ds == IF CharAt(rest, 1) \in {" ", "-"} THEN SubSeq(rest, 2, Len(rest)) ELSE rest
       IN IF ds # "" /\ CharsOf(ds) \subseteq DigitSet THEN ds ELSE ""

IsENumberTerm(term) == Len(ENumberDigits(term)) \in {3, 4}

\* C4: the pattern of an E-number term (e621, e-621, e 621) matches a token that
\* writes the same number as E621, E 621 or E-621, in any case, and matches no
\* token whose digit run differs.
C4_ENumberFlex ==
  (variant = "strict" /\ Matched) =>
    \A e \in Entries : \A tp \in TermPatterns(e) : \A ing \in Tokens :
       (IsENumberTerm(tp[1]) /\ ENumberDigits(ing) # "")
         => (RegexTest(tp[2], ing) <=> ENumberDigits(ing) = ENumberDigits(tp[1]))

\* the words of a term, and a token that writes them with one or more spaces or
\* hyphens between consecutive words
WordsOf(term) == FilterBoolean(Split(term, SpaceSet, FALSE))

RECURSIVE IsSeparatedWriting(_, _)
IsSeparatedWriting(words, ing) ==
  IF Len(words) = 1 THEN ing = words[1]
  ELSE LET w == words[1]
           rest == SubSeq(ing, Len(w) + 1, Len(ing))
       IN /\ Len(ing) > Len(w)
          /\ SubSeq(ing, 1, Len(w)) = w
          /\ CharAt(rest, 1) \in SepSet
          /\ IsSeparatedWriting(Tail(words), TrimLeft(rest, SepSet))

RECURSIVE Concat(_)
Concat(words) == IF words = <<>> THEN "" ELSE Head(words) \o Concat(Tail(words))

\* C5: in strict mode a multi-word term matches a token that separates its words
\* by one or more spaces or hyphens, and does not match the token that joins them
\* with no separator.
C5_SpaceHyphenFlex ==
  (variant = "strict" /\ Matched) =>
    \A e \in Entries : \A tp \in TermPatterns(e) : \A ing \in Tokens :
       LET words == WordsOf(tp[1])
       IN Len(words) >= 2 =>
            /\ IsSeparatedWriting(words, ing) => RegexTest(tp[2], ing)
            /\ ing = Concat(words) => ~RegexTest(tp[2], ing)

\* C5 witness: a two-word term, a token writing it with a hyphen and a token
\* writing it joined; the entry is flagged with the hyphenated span.
C5_Witness ==
  /\ variant = "strict" /\ pc = "matched"
  /\ Len(ingredientsList) = 2
  /\ \E e \in Entries : \E k \in 1..Len(e.terms) :
        /\ Len(WordsOf(e.terms[k])) = 2
        /\ ingredientsList[1] = Concat(WordsOf(e.terms[k]))
        /\ IsSeparatedWriting(WordsOf(e.terms[k]), ingredientsList[2])
        /\ ingredientsList[2] # e.terms[k]
        /\ matches.lvl2 = <<[term |-> ingredientsList[2], name |-> e.name]>>

\* the parenthesised groups of s: the text between each "(" and the next ")"
RECURSIVE ParenGroups(_)
ParenGroups(s) ==
  LET opens == {i \in 1..Len(s) : CharAt(s, i) = "("}
  IN IF opens = {} THEN {}
     ELSE LET o == CHOOSE i \in opens : \A j \in opens : i <= j
              closes == {i \in (o + 1)..Len(s) : CharAt(s, i) = ")"}
          IN IF closes = {} THEN {}
             ELSE LET c == CHOOSE i \in closes : \A j \in closes : i <= j
                  IN {SubSeq(s, o + 1, c - 1)} \cup ParenGroups(SubSeq(s, c + 1, Len(s)))

\* the words (runs of letters and digits) written inside parentheses in s
ParenWords(s) ==
  UNION {Range(FilterBoolean(Split(g, AlnumLower, TRUE))) :
           g \in ParenGroups(stripDiacritics(toLowerCase(s)))}

\* the parenthesised words of the ingredient data of the product: of the
\* structured fragments when there are any, else of the free text
ProductParenWords ==
  IF Len(product.ingredients) > 0
  THEN UNION {ParenWords(product.ingredients[i]) : i \in 1..Len(product.ingredients)}
  ELSE ParenWords(product.ingredients_text)

BucketOf(e) == IF StrictEqNum(e.level, 3) THEN matches.lvl3 ELSE matches.lvl2

ParenWordCompiledAndFlagged(e, w) ==
  /\ w \in Range(e.terms)
  /\ w \in ProductParenWords => \E r \in Range(BucketOf(e)) : r.name = e.name

\* C6 as claimed: for an entry of level 2 or 3 whose name or synonym holds a
\* parenthesised word w of 5 characters or more, w is a compiled term, and a
\* product with w inside parentheses (free text or fragment) is flagged.
C6_ParenthesisedWordFlags ==
  pc = "rendered" =>
    \A e \in Entries : \A k \in 1..Len(e.terms) : \A w \in ParenWords(e.terms[k]) :
       (Len(w) >= 5 /\ (StrictEqNum(e.level, 2) \/ StrictEqNum(e.level, 3)))
         => ParenWordCompiledAndFlagged(e, w)

\* C6 amended: the same under the parenthesis-preserving (strict) variant, for a
\* word w that is not on the generic single-word deny-list.
C6_ParenthesisedWordFlagsStrict ==
  (pc = "rendered" /\ variant = "strict") =>
    \A e \in Entries : \A k \in 1..Len(e.terms) : \A w \in ParenWords(e.terms[k]) :
       (Len(w) >= 5 /\ w \notin GENERIC_SINGLE_WORDS
          /\ (StrictEqNum(e.level, 2) \/ StrictEqNum(e.level, 3)))
         => ParenWordCompiledAndFlagged(e, w)

\* C6 witness: a structured fragment holds the parenthesised word of a synonym
\* and the entry is flagged with that word.
C6_Witness ==
  /\ pc = "rendered" /\ variant = "strict"
  /\ Len(product.ingredients) > 0
  /\ \E e \in Entries : \E k \in 1..Len(e.terms) : \E w \in ParenWords(e.terms[k]) :
        /\ Len(w) >= 5
        /\ w \in ProductParenWords
        /\ [term |-> w, name |-> e.name] \in Range(matches.lvl2)

\* needle occurs in ing as a whole word: no word character on either side
WholeWord(needle, ing) ==
  \E i \in 1..(Len(ing) - Len(needle) + 1) :
     /\ SubSeq(ing, i, i + Len(needle) - 1) = needle
     /\ ~IsWordAt(ing, i - 1)
     /\ ~IsWordAt(ing, i + Len(needle))

ShouldMatchLoose(needle) ==
  \E ing \in Tokens : WholeWord(needle, ing) \/ (Len(needle) >= 5 /\ Includes(ing, needle))

\* the terms of a loose entry as findTermHit reads them, blank ones left out
Needles(e) == FilterBoolean([k \in 1..Len(e.terms) |-> trim(toLowerCase(e.terms[k]))])

\* needle begins and ends with a word character
WordEdged(needle) == IsWordAt(needle, 1) /\ IsWordAt(needle, Len(needle))

\* the term the single entry of the avoid list was reported with, NoHit if none
ReportedTerms == {r.term : r \in Results}

PatternsMatching(e, i) ==
  {k \in 1..Len(e.patterns) : RegexTest(e.patterns[k], ingredientsList[i])}
TokensMatching(e, k) ==
  {i \in 1..Len(ingredientsList) : RegexTest(e.patterns[k], ingredientsList[i])}
Least(S) == CHOOSE x \in S : \A y \in S : x <= y

\* the span of the first term, in term order, that matches any token, taken at
\* the first token it matches
TermsOuterSpan(e) ==
  LET K == {k \in 1..Len(e.patterns) : TokensMatching(e, k) # {}}
  IN IF K = {} THEN {}
     ELSE {RegexMatch0(e.patterns[Least(K)], ingredientsList[Least(TokensMatching(e, Least(K)))])}

\* the span of the first token, in list order, that any term matches, taken with
\* the first term that matches it
TokensOuterSpan(e) ==
  LET I == {i \in 1..Len(ingredientsList) : PatternsMatching(e, i) # {}}
  IN IF I = {} THEN {}
     ELSE {RegexMatch0(e.patterns[Least(PatternsMatching(e, Least(I)))], ingredientsList[Least(I)])}

FirstNeedle(e) ==
  LET ns == Needles(e)
      ok == {k \in 1..Len(ns) : ShouldMatchLoose(ns[k])}
  IN IF ok = {} THEN {} ELSE {ns[Least(ok)]}

\* C8 as claimed: the match reported for an entry is that of the first term, in
\* term order, that matches any token, at the first token it matches (terms are
\* the outer iteration, tokens the inner one), in both matchers.
C8_TermsOuterTokensInner ==
  pc = "matched" =>
    \A e \in Entries :
       Truthy(e.level) =>
         ReportedTerms = IF variant = "strict" THEN TermsOuterSpan(e) ELSE FirstNeedle(e)

\* C8 amended: findTermHit (loose) iterates terms outside and tokens inside;
\* findStrictHit (strict) iterates tokens outside and patterns inside, so it reports
\* the first token, in list order, that any term matches, with the first term, in
\* term order, that matches that token.
C8_IterationOrderPerMatcher ==
  pc = "matched" =>
    \A e \in Entries :
       Truthy(e.level) =>
         ReportedTerms = IF variant = "strict" THEN TokensOuterSpan(e) ELSE FirstNeedle(e)

\* C8 witness: the first token is matched only by a later term and the first term
\* matches only a later token; strict mode reports the span of the first token.
C8_Witness ==
  /\ variant = "strict" /\ pc = "matched"
  /\ \E e \in Entries :
        /\ Truthy(e.level)
        /\ TermsOuterSpan(e) # TokensOuterSpan(e)
        /\ TermsOuterSpan(e) # {}
        /\ ReportedTerms = TokensOuterSpan(e)

LevelOf(raw) == ToNumber(Coalesce(Field(raw, "level"), Num(0)))
IsLevel2or3(raw) == StrictEqNum(LevelOf(raw), 2) \/ StrictEqNum(LevelOf(raw), 3)
NameOf(raw) == trim(ToStr(Coalesce(Field(raw, "name"), Str(""))))

\* C9: loading yields exactly one compiled entry for every raw record whose level,
\* coerced to a number, is 2 or 3, none for any other record, in input order.
C9_OneEntryPerLevel23Record ==
  (pc # "boot" /\ data.t = "array") =>
    LET expected == SelectSeq(data.a, IsLevel2or3)
    IN /\ Len(avoidList) = Len(expected)
       /\ \A i \in 1..Len(expected) :
            /\ toLowerCase(avoidList[i].name) = toLowerCase(NameOf(expected[i]))
            /\ avoidList[i].level = LevelOf(expected[i])

\* C10 as claimed: every compiled entry has a non-empty terms set.
C10_TermsNeverEmpty ==
  pc # "boot" => \A e \in Entries : e.terms # <<>>

\* the records the loader compiles: all of them in the loose variant, those whose
\* level is the number 2 or 3 in the strict variant
Compiled ==
  IF variant = "loose" THEN data.a
  ELSE SelectSeq(data.a, LAMBDA raw :
         raw.t = "object" /\ (raw.level = Num(2) \/ raw.level = Num(3)))

HasNoNameNoSynonym(raw) ==
  /\ NameOf(raw) = ""
  /\ \A x \in Range(ArrayOrEmpty(Field(raw, "synonyms"))) : ~Truthy(x)

\* C10 amended: a record with no name and no synonyms (or only empty ones) is not
\* dropped: it is compiled to an entry whose terms set is empty, and exactly such
\* records give an empty terms set; an entry without terms reports no match.
C10_EmptyEntriesKeptInert ==
  (pc # "boot" /\ data.t = "array") =>
    /\ Len(avoidList) = Len(Compiled)
    /\ \A i \in 1..Len(Compiled) :
         (avoidList[i].terms = <<>>) <=> HasNoNameNoSynonym(Compiled[i])
    /\ Len(matches.lvl2) + Len(matches.lvl3)
         <= Cardinality({i \in 1..Len(avoidList) : avoidList[i].terms # <<>>})

\* C10 witness: the list holds an entry without terms next to an entry that is
\* flagged for the looked-up product.
C10_Witness ==
  /\ pc = "rendered" /\ variant = "strict"
  /\ \E i \in 1..Len(avoidList) : avoidList[i].terms = <<>>
  /\ Results # {}

\* a record of level 2 or 3 with a non-empty string name and an array of string
\* synonyms
WellFormed(raw) ==
  /\ raw.t = "object"
  /\ raw.name.t = "string" /\ trim(raw.name.s) # ""
  /\ raw.level \in {Num(2), Num(3)}
  /\ raw.synonyms.t = "array"
  /\ \A x \in Range(raw.synonyms.a) : x.t = "string"

\* C11: one malformed record (null, no name, synonyms not an array, a synonym that
\* is not a string) never makes compilation fail: every other record of the list is
\* still compiled and held in the avoid list.
C11_MalformedRecordLosesNothingElse ==
  (pc = "ready" /\ data.t = "array") =>
    \A i \in 1..Len(data.a) :
       WellFormed(data.a[i]) =>
         \E j \in 1..Len(avoidList) :
            /\ toLowerCase(avoidList[j].name) = toLowerCase(trim(data.a[i].name.s))
            /\ avoidList[j].terms # <<>>

\* the maximal runs of letters and digits of s
AlnumWords(s) ==
  LET spans == {ij \in (1..Len(s)) \X (1..Len(s)) :
                  /\ ij[1] <= ij[2]
                  /\ \A k \in ij[1]..ij[2] : CharAt(s, k) \in AlnumLower
                  /\ (ij[1] = 1 \/ CharAt(s, ij[1] - 1) \notin AlnumLower)
                  /\ (ij[2] = Len(s) \/ CharAt(s, ij[2] + 1) \notin AlnumLower)}
  IN {SubSeq(s, ij[1], ij[2]) : ij \in spans}

Fold(x) == stripDiacritics(toLowerCase(x))

\* the full phrases of a raw record: its trimmed name and each synonym, when not
\* empty, lowercased and diacritic-folded
FullPhrases(raw) ==
  LET name == trim(ToStr(Coalesce(Field(raw, "name"), Str(""))))
      syns == Range(ArrayOrEmpty(Field(raw, "synonyms")))
  IN (IF name = "" THEN {} ELSE {Fold(name)})
       \cup {Fold(ToStr(x)) : x \in {y \in syns : Truthy(y)}}

\* the words of the full phrases, brackets read as spaces, that have 5 characters
\* or more
LongWords(raw) ==
  {w \in UNION {AlnumWords(ph) : ph \in FullPhrases(raw)} : Len(w) >= 5}

\* C12: the terms of a compiled entry (script.js normalizeAvoid) are exactly the
\* union of its full phrases (name and each synonym, lowercased and diacritic-
\* folded) and the words of those phrases that have 5 characters or more; a
\* shorter word is a term only when it is itself a whole name or synonym; the
\* terms hold no duplicates.
C12_TermsAreFullPhrasesAndLongWords ==
  (pc # "boot" /\ variant = "loose" /\ data.t = "array") =>
    /\ Len(avoidList) = Len(data.a)
    /\ \A i \in 1..Len(avoidList) :
         LET terms == avoidList[i].terms
             raw == data.a[i]
         IN /\ Range(terms) = FullPhrases(raw) \cup LongWords(raw)
            /\ \A t \in Range(terms) : Len(t) < 5 => t \in FullPhrases(raw)
            /\ \A j, k \in 1..Len(terms) : terms[j] = terms[k] => j = k

\* C12 witness: a synonym with a short word and a long parenthesised word: the long
\* word is a term of its own, the short one is not.
C12_Witness ==
  /\ pc # "boot" /\ variant = "loose" /\ data.t = "array"
  /\ \E i \in 1..Len(avoidList) :
       LET terms == Range(avoidList[i].terms)
           words == UNION {AlnumWords(ph) : ph \in FullPhrases(data.a[i])}
       IN /\ \E w \in words : Len(w) >= 5 /\ w \in terms /\ w \notin FullPhrases(data.a[i])
          /\ \E w \in words : Len(w) < 5 /\ w \notin terms

\* some term of entry e matches some token of the ingredient list
EntryMatches(e) ==
  IF variant = "strict"
  THEN \E tp \in TermPatterns(e) : \E ing \in Tokens : RegexTest(tp[2], ing)
  ELSE \E n \in Range(Needles(e)) : ShouldMatchLoose(n)

\* C13: a reported span is a literal substring of some token of the product's
\* ingredient list (in strict mode text that a pattern of the entry matches, in
\* loose mode the term itself); when no term of an entry matches any token, the
\* entry contributes no result.
C13_SpanIsSubstringOfAToken ==
  pc = "rendered" =>
    /\ \A r \in Results :
         /\ r.term # ""
         /\ \E ing \in Tokens : Includes(ing, r.term)
         /\ \E e \in Entries :
              /\ e.name = r.name
              /\ EntryMatches(e)
              /\ IF variant = "strict"
                 THEN \E tp \in TermPatterns(e) : \E ing \in Tokens :
                         RegexTest(tp[2], ing) /\ RegexMatch0(tp[2], ing) = r.term
                 ELSE r.term \in Range(Needles(e))
    /\ (\A e \in Entries : ~EntryMatches(e)) => matches = NoMatches

\* C13 witness: a strict result whose span is a proper part of the token it was
\* found in, next to an entry that matches nothing.
C13_Witness ==
  /\ pc = "rendered" /\ variant = "strict"
  /\ \E r \in Results : \E ing \in Tokens :
        Includes(ing, r.term) /\ Len(ing) > Len(r.term)
  /\ \E e \in Entries : e.terms # <<>> /\ ~EntryMatches(e)

C15_NormalizeIngredientIdempotent ==
  pc = "renormalized" => ingredientsList[2] = ingredientsList[1]

\* C15 witness: a fragment that the first call changed (and did not empty) has
\* been normalized a second time.
C15_Witness ==
  /\ pc = "renormalized"
  /\ ingredientsList[1] # data.s
  /\ ingredientsList[1] # ""
  /\ \E i \in 1..Len(data.s) : CharAt(data.s, i) \in {"(", ")"}

\* the accented letters of the modelled inputs
AccentedSet ==
  {LowerCCedilla, LowerEAcute, LowerIAcute, UpperCCedilla, UpperEAcute, UpperIAcute}

\* C16: a token returned by normalizeIngredient is lowercase and diacritic-free,
\* begins and ends with a letter or digit, and holds no hyphen, no underscore and
\* no two consecutive white-space characters.
C16_NormalizedTokenShape ==
  (pc = "normalized" /\ ingredientsList[1] # "") =>
    LET t == ingredientsList[1]
    IN /\ CharsOf(t) \cap (UpperSet \cup AccentedSet \cup CombiningSet) = {}
       /\ CharAt(t, 1) \in AlnumLower
       /\ CharAt(t, Len(t)) \in AlnumLower
       /\ "-" \notin CharsOf(t)
       /\ "_" \notin CharsOf(t)
       /\ \A i \in 1..(Len(t) - 1) :
            ~(CharAt(t, i) \in SpaceSet /\ CharAt(t, i + 1) \in SpaceSet)

\* C16 witness: a fragment with an accented capital, punctuation at an edge and a
\* run of separators inside has been normalized to a token with a space inside.
C16_Witness ==
  /\ pc = "normalized"
  /\ UpperEAcute \in CharsOf(data.s)
  /\ CharAt(data.s, 1) = ","
  /\ \E i \in 1..(Len(data.s) - 1) :
        CharAt(data.s, i) \in {"-", "_"} /\ CharAt(data.s, i + 1) \in {"-", "_", " "}
  /\ " " \in CharsOf(ingredientsList[1])

\* s without its diacritical marks and in lower case: each accented letter and each
\* capital replaced by its plain lower-case letter, each combining mark removed
PlainMap ==
  [c \in UpperSet \cup AccentedSet \cup CombiningSet |->
     CASE c \in {LowerCCedilla, UpperCCedilla} -> "c"
       [] c \in {LowerEAcute, UpperEAcute} -> "e"
       [] c \in {LowerIAcute, UpperIAcute} -> "i"
       [] c \in CombiningSet -> ""
       [] OTHER -> CharAt(LOWERS, CHOOSE i \in 1..Len(UPPERS) : CharAt(UPPERS, i) = c)]

Plain(s) == StrMap(PlainMap, s)

buildIngredientsList(text, arr) ==
  IF variant = "strict" THEN buildIngredientsListStrict(text, arr)
  ELSE buildIngredientsListLoose(text, arr)

matchIngredients(ingredients, avoid) ==
  IF variant = "strict" THEN matchIngredientsStrict(ingredients, avoid)
  ELSE matchIngredientsLoose(ingredients, avoid)

PlainTokens ==
  buildIngredientsList(Plain(product.ingredients_text),
                       [i \in 1..Len(product.ingredients) |-> Plain(product.ingredients[i])])

\* C17: an ingredient input and the input that differs from it only by diacritical
\* marks and letter case (its plain lower-case form) give the same token sequence,
\* and so the same match results.
C17_DiacriticAndCaseInvariant ==
  pc = "built" =>
    /\ ingredientsList = PlainTokens
    /\ matches = matchIngredients(PlainTokens, avoidList)

\* C17 witness: an input with an accented capital has given a token that is
\* matched.
C17_Witness ==
  /\ pc = "built"
  /\ UpperEAcute \in CharsOf(product.ingredients_text)
  /\ "e" \in Tokens
  /\ matches.lvl3 # <<>>

normalizeIngredient(x) ==
  IF variant = "strict" THEN normalizeIngredientStrict(x) ELSE normalizeIngredientLoose(x)

\* the fragments of the input in input order, each normalized: the structured
\* fragments when there are any, else the pieces of the free text between its
\* delimiters (commas, semicolons, brackets; parentheses too in the strict variant)
Candidates ==
  IF Len(product.ingredients) > 0
  THEN [i \in 1..Len(product.ingredients) |-> normalizeIngredient(product.ingredients[i])]
  ELSE LET delims == IF variant = "strict" THEN ListDelims \cup {"(", ")"} ELSE ListDelims
           parts == Split(product.ingredients_text, delims, FALSE)
       IN [i \in 1..Len(parts) |-> normalizeIngredient(parts[i])]

FirstIndex(seq, x) == Least({i \in 1..Len(seq) : seq[i] = x})

\* C18: the sequence buildIngredientsList returns holds no empty token and no token
\* twice, its tokens are the non-empty normalized fragments of the input in the
\* order of their first occurrence, and an empty or all-white-space input gives the
\* empty sequence.
C18_TokensNonEmptyDistinctFirstSeenOrder ==
  pc = "built" =>
    LET list == ingredientsList
    IN /\ \A i \in 1..Len(list) : list[i] # ""
       /\ \A i, j \in 1..Len(list) : list[i] = list[j] => i = j
       /\ Range(list) = Range(Candidates) \ {""}
       /\ \A i, j \in 1..Len(list) :
            i < j => FirstIndex(Candidates, list[i]) < FirstIndex(Candidates, list[j])
       /\ (product.ingredients = <<>> /\ CharsOf(product.ingredients_text) \subseteq SpaceSet)
            => list = <<>>

\* C18 witness: the first fragment of the input occurs again after another one;
\* two tokens are returned.
C18_Witness ==
  /\ pc = "built"
  /\ Len(ingredientsList) = 2
  /\ \E i, j \in 1..Len(Candidates) :
        i + 1 < j /\ Candidates[i] = Candidates[j] /\ Candidates[i] # ""

\* C19: with a non-empty structured fragment array buildIngredientsList returns the
\* normalization of those fragments only, whatever the free text is; the free text
\* is split and used only when the array is empty.
C19_StructuredFragmentsIgnoreFreeText ==
  pc = "built" =>
    /\ Len(product.ingredients) > 0 =>
         /\ \A text \in BuildTexts \cup {"a; a (e), " \o product.ingredients_text} :
              buildIngredientsList(text, product.ingredients) = ingredientsList
         /\ Range(ingredientsList) =
              {normalizeIngredient(product.ingredients[i]) :
                 i \in 1..Len(product.ingredients)} \ {""}
    /\ Len(product.ingredients) = 0 =>
         Range(ingredientsList) = Range(Candidates) \ {""}

\* C19 witness: a non-empty fragment array next to a free text with a token that
\* the result does not hold.
C19_Witness ==
  /\ pc = "built"
  /\ Len(product.ingredients) > 0
  /\ product.ingredients_text # ""
  /\ \E t \in Range(buildIngredientsList(product.ingredients_text, <<>>)) :
        t \notin Tokens

\* C20: within one scan session at most one lookup is in flight at any time:
\* after a decoded code was accepted and its lookup started, no decode result
\* starts another lookup before that lookup rendered its result or failed.
C20_AtMostOneLookupInFlight == Len(lookups) <= 1

\* C21: the same barcode is never looked up twice within the debounce
\* window: a lookup of a code that was looked up before is started more than
\* the window (1500 ms in script.js, 2000 ms in part_001) after the previous
\* lookup of that code, whatever other codes were decoded in between.
DebounceWindow == IF variant = "item" THEN 2000 ELSE 1500

C21_NoRepeatLookupWithinWindow ==
  [][\A c \in ScanCodes :
       (fetched'[c] # fetched[c] /\ fetched[c] # NotFetched)
         => fetched'[c] - fetched[c] > DebounceWindow]_vars

\* C22: after stopScanning has run in script.js (the automatic stop after the
\* first accepted decode included) no further frame is submitted for detection
\* and no decode result, not even one that was pending at the stop, starts a
\* lookup.
Stopped == variant = "loose" /\ engine # "none" /\ ~scanning

C22_NothingAcceptedAfterStop ==
  [][Stopped => (detects' <= detects /\ fetched' = fetched)]_vars

\* C23: stopping a scan session releases the camera: after stopScanning
\* (script.js) or stopStream (part_001), whether the session used the native
\* detector or ZXing, no stream that openStream opened has a live track.
AfterStop ==
  \/ Stopped
  \/ variant = "item" /\ status = "Camera stopped."

C23_StopReleasesCamera ==
  AfterStop => \A i \in 1..Len(streams) : ~streams[i]

\* C24: the 'no flagged ingredients' state is shown only as the outcome of
\* an evaluated scan without a match, never while the scanned product is
\* pending or unknown: no lookup evaluated yet, a lookup awaiting its
\* response, the latest lookup failed, or the product was not found.
ShowsNoFlagged ==
  resOK \in {"No flagged ingredients detected",
             "No Level 2 or Level 3 ingredients detected"}

PendingOrUnknown ==
  \/ product = NoProduct
  \/ lookups # <<>>
  \/ status = "Lookup failed. Try again."

C24_NoFlaggedOnlyForEvaluatedProduct == ShowsNoFlagged => ~PendingOrUnknown

\* C25: a failed lookup is never fatal: the step that ends a lookup without
\* rendering it sets the status to 'Lookup failed. Try again.' and leaves the
\* avoid list, the scan-session state and the displayed result as they were.
LookupEndsUnrendered ==
  /\ Len(lookups') < Len(lookups)
  /\ status' # "Ingredients loaded. Matches evaluated."

C25_FailedLookupNotFatal ==
  [][LookupEndsUnrendered =>
       /\ status' = "Lookup failed. Try again."
       /\ lookups' \in {RemoveAt(lookups, i) : i \in 1..Len(lookups)}
       /\ UNCHANGED <<pc, avoidList, product, ingredientsList, matches, resOK,
                      engine, scanning, lastCode, lastAt, detects, fetched,
                      currentStream, streams, nativeStarted, zxingErrorShown>>]_vars

\* a lookup of a script.js session has failed, with the avoid list loaded and
\* the result of an earlier lookup on display
C25_Witness ==
  /\ variant = "loose"
  /\ status = "Lookup failed. Try again."
  /\ avoidList # <<>>
  /\ engine = "native"
  /\ product # NoProduct

\* C26: once the avoid list has been loaded at startup it is never modified
\* again: no start, stop, restart, camera flip, decode, lookup, match or
\* render reassigns avoidList.
C26_AvoidListImmutableAfterLoad ==
  [][pc # "boot" => avoidList' = avoidList]_vars

\* C27: if the native detector cannot be used (BarcodeDetector absent, no
\* retail format, or a constructor that throws) the ZXing scan is attempted
\* instead: when the start sequence of script.js has finished, ZXing is the
\* running scanner if it could be started, and otherwise an error status was
\* shown, no scanner is running and the process goes on.
ErrorStatuses == {"ZXing not loaded.", "ZXing start error"}

StartFinished == variant = "loose" /\ pc = "started"

C27_FallbackToZXingOrErrorStatus ==
  [][(StartFinished' /\ pc = "opened" /\ caps.native # "ok") =>
       /\ ~nativeStarted'
       /\ detects' = 0
       /\ IF caps.zxing = "ok"
          THEN engine' = "zxing" /\ scanning'
          ELSE /\ engine' = "none"
               /\ lookups' = <<>>
               /\ status' \in ErrorStatuses]_vars

\* the constructor of BarcodeDetector threw and ZXing could not be loaded
C27_Witness ==
  /\ StartFinished
  /\ caps = [native |-> "throws", zxing |-> "noload"]
  /\ status = "ZXing not loaded."

\* the avoid-list document has the legacy shape: match_keywords, no avoid_terms
LegacyShape ==
  Field(data, "match_keywords").t = "array" /\ Field(data, "avoid_terms").t # "array"

\* C28: with an avoid list in the legacy shape (an object with a
\* match_keywords array) no keyword is flagged: whatever ingredient text is
\* checked, no match is reported.
C28_LegacyKeywordsNeverFlagged ==
  (pc = "checked" /\ LegacyShape) => Safe(matches)

\* C29: in the native scan loop any two consecutive frames handed to the
\* detector have animation-frame timestamps at least SCAN_INTERVAL_MS
\* (200 ms) apart, whatever the time between the animation frames.
C29_SubmittedFramesAtLeastIntervalApart ==
  \A i \in 2..Len(frames) : frames[i] - frames[i - 1] >= SCAN_INTERVAL_MS

\* two frames were handed over, and the latest animation frame came less
\* than the interval after the second and was not handed over
C29_Witness ==
  /\ Len(frames) >= 2
  /\ ts > frames[Len(frames)]
  /\ ts - frames[Len(frames)] < SCAN_INTERVAL_MS

\* C30: ZXing scanning is never started once the native scanner has
\* started: in every reachable state with nativeStarted the ZXing decode
\* callback is not the running scanner, and neither the status line nor the
\* error flag says that ZXing was not loaded.
C30_NoZXingOnceNativeStarted ==
  (variant = "loose" /\ nativeStarted) =>
     /\ engine # "zxing"
     /\ status # "ZXing not loaded."
     /\ ~zxingErrorShown

\* the start sequence ran again after the native scanner had started, on a
\* platform where the ZXing library cannot be loaded
C30_Witness ==
  /\ variant = "loose"
  /\ nativeStarted
  /\ pc = "started"
  /\ Len(streams) >= 2
  /\ engine = "native"
  /\ scanning
  /\ caps.zxing = "noload"

\* the results of a bucket are those of distinct entries of the avoid list,
\* taken in the order of the list, each of the bucket's level
EmbedsInOrder(bucket, third) ==
  \E f \in [1..Len(bucket) -> 1..Len(avoidList)] :
     /\ \A k, l \in 1..Len(bucket) : k < l => f[k] < f[l]
     /\ \A k \in 1..Len(bucket) :
          /\ bucket[k].name = avoidList[f[k]].name
          /\ StrictEqNum(avoidList[f[k]].level, 3) = third

\* C31: matchIngredients yields at most one result per avoid entry, however
\* many of the entry's terms match and however many tokens they match, and
\* within each bucket the results are in the order of their entries.
C31_OneResultPerEntryInListOrder ==
  Matched =>
    /\ EmbedsInOrder(matches.lvl3, TRUE)
    /\ EmbedsInOrder(matches.lvl2, FALSE)

\* two entries of one level are reported, and one of them matches the
\* product with two of its terms
C31_Witness ==
  /\ Matched
  /\ \E b \in {matches.lvl2, matches.lvl3} : Len(b) = 2 /\ b[1].name # b[2].name
  /\ \E e \in Entries :
       IF variant = "strict"
       THEN Cardinality({tp \in TermPatterns(e) :
                           \E ing \in Tokens : RegexTest(tp[2], ing)}) >= 2
       ELSE Cardinality({n \in Range(Needles(e)) : ShouldMatchLoose(n)}) >= 2

\* script.js after boot with no avoid list: in a session the fetched document
\* is ScanAvoidDoc, so the list is empty only when loading failed
LoadFailed == variant = "loose" /\ pc # "boot" /\ avoidList = <<>>

\* C32: if loading the avoid list fails, avoidList is the empty list, the
\* start of scanning is not held back, and every lookup that then completes
\* renders empty level-2 and level-3 buckets together with the message
\* "No flagged ingredients detected", whatever the product's ingredients.
C32_FailedLoadFlagsNothing ==
  /\ (variant = "loose" /\ status = "Avoid list failed to load.") =>
        /\ avoidList = <<>>
        /\ pc = "ready"
        /\ ENABLED OpenStream
  /\ LoadFailed =>
        /\ matches = NoMatches
        /\ resOK \in {Blank, "No flagged ingredients detected"}
        /\ status = "Ingredients loaded. Matches evaluated." =>
              resOK = "No flagged ingredients detected"

\* after a failed load the native scanner started and the lookup of a product
\* with cheese in its ingredients completed
C32_Witness ==
  /\ LoadFailed
  /\ nativeStarted
  /\ status = "Ingredients loaded. Matches evaluated."
  /\ product = Prod("water, cheese", <<>>)
  /\ ingredientsList = <<"water", "cheese">>
  /\ resOK = "No flagged ingredients detected"

\* the step in which the only lookup still in flight is answered and rendered
LastLookupRendered ==
  /\ Len(lookups) = 1
  /\ lookups' = <<>>
  /\ status' = "Ingredients loaded. Matches evaluated."

\* C33: when two lookups were in flight at the same time (the later one is
\* shown already, the earlier one is still awaited), the barcode displayed
\* after both have completed is the most recently accepted one, whichever
\* response arrives last.
C33_LatestBarcodeShownAfterBoth ==
  [][(LastLookupRendered /\ resBarcode = lastCode) => resBarcode' = lastCode]_vars

\* the step in which a lookup decoded during an earlier scan session is
\* answered while a later session is running on the current stream
StaleLookupAnswered ==
  /\ currentStream # 0
  /\ streams[currentStream]
  /\ \E i \in 1..Len(lookups) : lookups' = RemoveAt(lookups, i)
  /\ \A i \in 1..Len(lookups) :
        lookups' = RemoveAt(lookups, i) => lookups[i][2] \notin {0, currentStream}

\* C34: a lookup started by a decode in one scan session that completes after
\* the user has stopped that session and started a new one does not stop the
\* new session: its camera stream and its scan timer stay as they are.
C34_StaleLookupLeavesNewSession ==
  [][StaleLookupAnswered =>
       /\ currentStream' = currentStream
       /\ streams' = streams
       /\ scanTimer' = scanTimer
       /\ timers' = timers]_vars

\* the step in which startZXingScan returns false because the library is
\* not loaded or because the reader could not be started
ZXingReturnsFalse ==
  /\ variant = "loose"
  /\ pc = "opened"
  /\ pc' = "started"
  /\ status' \in {"ZXing not loaded.", "ZXing start error"}

\* C35: whenever startZXingScan returns false (the library is not loaded, or
\* decodeFromVideoDevice throws) the scanning flag is false afterwards.
C35_ScanningFalseAfterZXingFailure ==
  [][ZXingReturnsFalse => ~scanning']_vars

\* every stream that was acquired and is not the current one is stopped
OnlyCurrentLive ==
  \A i \in 1..Len(streams) : streams[i] => i = currentStream

\* the step of openStream in which getUserMedia answered with a stream
\* that has no video tracks
NoTracksReturned ==
  /\ opening' = opening - 1
  /\ Len(streams') = Len(streams) + 1
  /\ currentStream' # Len(streams')

\* C36: after any interleaving of openStream calls has completed, every
\* camera stream that was acquired and is not the current stream has had all
\* its tracks stopped, so at most one stream is live; a stream returned
\* without video tracks is stopped and the previous current stream is left
\* untouched.
C36_OpenStreamLeavesOneLiveStream ==
  /\ [](opening = 0 => OnlyCurrentLive)
  /\ [][NoTracksReturned =>
          /\ ~streams'[Len(streams')]
          /\ currentStream' = currentStream
          /\ SubSeq(streams', 1, Len(streams)) = streams]_vars

\* three calls have completed: a stream was replaced by the second one, and
\* the last answer was a stream without tracks that left the second current
C36_Witness ==
  /\ variant = "loose"
  /\ opening = 0
  /\ streams = <<FALSE, TRUE, FALSE>>
  /\ currentStream = 2
  /\ status = "Camera error: No video tracks returned."

====
